---- MODULE Spec2Model ----
(***************************************************************************)
(* State-machine model of the pharmacy chat bot: the conversation context, *)
(* the prompt manager's template cache and one conversation turn of        *)
(* PharmacyChatbot.process_user_message, step by step.                     *)
(*                                                                         *)
(* Python values are modelled as tagged records: None is [t |-> "none"],   *)
(* a str is [t |-> "str", s |-> <<tokens>>] (a string is a sequence of     *)
(* tokens, so that prefixes, concatenation and strip() are computed), an   *)
(* int is [t |-> "int", i |-> n].  Strings that are never optional         *)
(* (history entries, replies) are bare token sequences.                    *)
(***************************************************************************)
EXTENDS Integers, Sequences, FiniteSets, TLC

VARIABLES
    context,        \* the ConversationContext, None before initialize_conversation
    lookup,         \* the pharmacy argument initialize_conversation was given
    pc,             \* position inside process_user_message
    user_message,   \* the message of the turn being handled
    outcome,        \* what the handler returned or raised, read by the last step
    extraction,     \* this turn's extraction attempt: "none", "failed", "applied"
    calls,          \* the model requests issued by the turn being handled
    last_response,  \* the value the last process_user_message call returned
    turn_log,       \* one record per completed turn: reply kind and calls made
    cache,          \* PromptManager._cache
    disk,           \* the prompts directory: status of every template file
    prompt_manager, \* "unset" until a PromptManager has been constructed, then "ready"
    pharmacies,     \* the pharmacy list load_pharmacy_data fetched
    answer,         \* what the last function called on its own returned or raised
    io,             \* the template lookups, reloads and file reads of a store under test
    actions,        \* the follow-up actions executed so far, in order
    lookups         \* per session sharing one store: its lookup in progress

\* the state of a chat session
session == <<context, lookup, pc, user_message, outcome, extraction, calls,
             last_response, turn_log>>

\* the state used when a function is called on its own
direct == <<pharmacies, answer, io>>

vars == <<context, lookup, pc, user_message, outcome, extraction, calls,
          last_response, turn_log, cache, disk, prompt_manager, pharmacies, answer, io,
          actions, lookups>>

-----------------------------------------------------------------------------
(* Bounds of the model *)

MaxTurns == 4

-----------------------------------------------------------------------------
(* Python values *)

None == [t |-> "none"]
StrV(toks) == [t |-> "str", s |-> toks]
IntV(n) == [t |-> "int", i |-> n]

\* bool(v): None, "" and 0 are falsy
Truthy(v) ==
    CASE v.t = "none" -> FALSE
      [] v.t = "str" -> v.s # <<>>
      [] v.t = "int" -> v.i # 0
      [] OTHER -> TRUE

\* a or b
Or(a, b) == IF Truthy(a) THEN a ELSE b

IsWhitespace(tok) == tok \in {" ", "\n"}

RECURSIVE LStrip(_)
LStrip(s) == IF s # <<>> /\ IsWhitespace(Head(s)) THEN LStrip(Tail(s)) ELSE s

RECURSIVE RStrip(_)
RStrip(s) ==
    IF s # <<>> /\ IsWhitespace(s[Len(s)]) THEN RStrip(SubSeq(s, 1, Len(s) - 1)) ELSE s

\* str.strip()
Strip(s) == RStrip(LStrip(s))

\* str.startswith(prefix), the prefix being one token
StartsWith(s, prefix) == s # <<>> /\ Head(s) = prefix

Range(s) == {s[i] : i \in 1..Len(s)}

\* results of calls that may raise
Return(v, c) == [raised |-> FALSE, value |-> v, cache |-> c]
Raise(name, text, c) == [raised |-> TRUE, value |-> [exc |-> name, text |-> text], cache |-> c]

-----------------------------------------------------------------------------
(* env.py *)

COMPANY_NAME == <<"Pharmesol">>
COMPANY_PHONE == <<"+1-555-PHARMA-1">>

-----------------------------------------------------------------------------
(* models.py *)

Prescription(drug, count) == [drug |-> drug, count |-> count]

RECURSIVE SumCounts(_)
SumCounts(rxs) == IF rxs = <<>> THEN 0 ELSE Head(rxs).count + SumCounts(Tail(rxs))

total_rx_volume(pharmacy) == SumCounts(pharmacy.prescriptions)

location(pharmacy) == pharmacy.city \o <<", ">> \o pharmacy.state

\* a threshold test that counts 100 itself as high volume
is_high_volume_from_threshold(pharmacy) == total_rx_volume(pharmacy) >= 100

is_high_volume(pharmacy) == total_rx_volume(pharmacy) > 100

NewPharmacyLead(phone) ==
    [phone |-> phone, name |-> None, contact_person |-> None, city |-> None,
     state |-> None, estimated_rx_volume |-> None, preferred_contact |-> None]

\* a completeness check that also wants the prescription volume
is_complete_requiring_volume(lead) ==
    /\ Truthy(lead.name)
    /\ Truthy(lead.contact_person)
    /\ Truthy(lead.city)
    /\ Truthy(lead.state)
    /\ Truthy(lead.estimated_rx_volume)

is_complete(lead) ==
    /\ Truthy(lead.name)
    /\ Truthy(lead.contact_person)
    /\ Truthy(lead.city)
    /\ Truthy(lead.state)

ConversationContext(caller_phone) ==
    [caller_phone |-> caller_phone, pharmacy |-> None, new_lead |-> None,
     conversation_stage |-> "greeting", messages |-> <<>>]

is_returning_customer(ctx) == ctx.pharmacy # None

-----------------------------------------------------------------------------
(* prompt_manager.py *)

TXT == ".txt"

K_missing_info_questions == <<"responses/missing_info_questions">>
K_lead_assessment_unknown == <<"responses/lead_assessment_unknown">>
K_lead_assessment_high_volume == <<"responses/lead_assessment_high_volume">>
K_lead_assessment_medium_volume == <<"responses/lead_assessment_medium_volume">>
K_lead_assessment_low_volume == <<"responses/lead_assessment_low_volume">>
K_new_lead_system == <<"system/new_lead_system">>
K_returning_customer_system == <<"system/returning_customer_system">>

\* the template files the turn handlers use, by cache key
TemplateFiles ==
    {Append(k, TXT) : k \in {K_missing_info_questions, K_lead_assessment_unknown,
                             K_lead_assessment_high_volume,
                             K_lead_assessment_medium_volume,
                             K_lead_assessment_low_volume, K_new_lead_system,
                             K_returning_customer_system}}

\* responses/missing_info_questions.txt: one "field: question" line per field
MissingInfoQuestionsFile ==
    <<"name", ":", " ", "What's the name of your pharmacy?", "\n",
      "contact_person", ":", " ", "What's your name?", "\n",
      "location", ":", " ", "Where is your pharmacy located?", "\n",
      "rx_volume", ":", " ", "How many prescriptions do you fill per month?", "\n">>

\* what open(file_path).read() gives for a template file
FileContent(cache_key) ==
    IF cache_key = Append(K_missing_info_questions, TXT)
    THEN MissingInfoQuestionsFile
    ELSE <<"\n">> \o SubSeq(cache_key, 1, Len(cache_key) - 1) \o <<"\n">>

DictSet(d, k, v) == [x \in (DOMAIN d) \cup {k} |-> IF x = k THEN v ELSE d[x]]

\* what open(file_path).read() gives once the file has been edited
EditedFileContent(cache_key) == FileContent(cache_key) \o <<"# edited", "\n">>

\* the text on disk of a file that can be read
FileText(cache_key) ==
    IF disk[cache_key] = "edited" THEN EditedFileContent(cache_key)
    ELSE FileContent(cache_key)

\* a lookup's result together with the files it opened
Looked(r, files) ==
    [raised |-> r.raised, value |-> r.value, cache |-> r.cache, reads |-> files]

\* the path a prompt path is cached under: the path with its ".txt"
CacheKey(prompt_path) ==
    IF prompt_path # <<>> /\ prompt_path[Len(prompt_path)] = TXT
    THEN prompt_path
    ELSE Append(prompt_path, TXT)

\* a __getitem__ that never looks into its cache
GetItemUncached(c, prompt_path) ==
    LET cache_key == CacheKey(prompt_path)
    IN  IF cache_key \notin DOMAIN disk \/ disk[cache_key] = "missing"
        THEN Looked(Raise("FileNotFoundError", <<"Prompt file not found: ">> \o cache_key, c),
                    <<>>)
        ELSE IF disk[cache_key] = "unreadable"
        THEN Looked(Raise("RuntimeError", <<"Failed to read prompt file ">> \o cache_key, c),
                    <<cache_key>>)
        ELSE LET content == Strip(FileText(cache_key))
             IN  Looked(Return(content, DictSet(c, cache_key, content)), <<cache_key>>)

\* a __getitem__ that takes a file it cannot find for an empty template
GetItemDefaultingMissing(c, prompt_path) ==
    LET cache_key == CacheKey(prompt_path)
    IN  IF cache_key \in DOMAIN c
        THEN Looked(Return(c[cache_key], c), <<>>)
        ELSE IF cache_key \notin DOMAIN disk \/ disk[cache_key] = "missing"
        THEN Looked(Return(<<>>, DictSet(c, cache_key, <<>>)), <<>>)
        ELSE IF disk[cache_key] = "unreadable"
        THEN Looked(Raise("RuntimeError", <<"Failed to read prompt file ">> \o cache_key, c),
                    <<cache_key>>)
        ELSE LET content == Strip(FileText(cache_key))
             IN  Looked(Return(content, DictSet(c, cache_key, content)), <<cache_key>>)

\* PromptManager.__getitem__ on cache c: the cached text, or the file's text
\* read, stripped and cached
GetItem(c, prompt_path) ==
    LET cache_key == CacheKey(prompt_path)
    IN  IF cache_key \in DOMAIN c
        THEN Looked(Return(c[cache_key], c), <<>>)
        ELSE IF cache_key \notin DOMAIN disk \/ disk[cache_key] = "missing"
        THEN Looked(Raise("FileNotFoundError", <<"Prompt file not found: ">> \o cache_key, c),
                    <<>>)
        ELSE IF disk[cache_key] = "unreadable"
        THEN Looked(Raise("RuntimeError", <<"Failed to read prompt file ">> \o cache_key, c),
                    <<cache_key>>)
        ELSE LET content == Strip(FileText(cache_key))
             IN  Looked(Return(content, DictSet(c, cache_key, content)), <<cache_key>>)

\* str.format(**args): the template with its arguments
Format(template, args) == [t |-> "fmt", template |-> template, args |-> args]

\* s.split("\n")
RECURSIVE SplitLines(_, _)
SplitLines(s, line) ==
    IF s = <<>> THEN <<line>>
    ELSE IF Head(s) = "\n" THEN <<line>> \o SplitLines(Tail(s), <<>>)
    ELSE SplitLines(Tail(s), Append(line, Head(s)))

FirstColon(line) == CHOOSE k \in 1..Len(line) : line[k] = ":" /\ \A j \in 1..(k - 1) : line[j] # ":"

RECURSIVE ParseLines(_, _)
ParseLines(lines, questions) ==
    IF lines = <<>> THEN questions
    ELSE LET line == Head(lines)
         IN  IF ":" \in Range(line)
             THEN LET k == FirstColon(line)
                  IN  ParseLines(Tail(lines),
                                 DictSet(questions, Strip(SubSeq(line, 1, k - 1)),
                                         Strip(SubSeq(line, k + 1, Len(line)))))
             ELSE ParseLines(Tail(lines), questions)

\* PromptManager._parse_questions_file
parse_questions_file(questions_content) ==
    ParseLines(SplitLines(questions_content, <<>>), <<>>)

\* questions.get(missing_field)
QuestionFor(questions, missing_field) ==
    IF missing_field \in DOMAIN questions THEN StrV(questions[missing_field]) ELSE None

\* get_missing_info_question once the questions file has been looked up (r)
QuestionFrom(r, missing_field) ==
    IF r.raised
    THEN Return(None, r.cache)
    ELSE Return(QuestionFor(parse_questions_file(r.value), missing_field), r.cache)

\* PromptManager.get_missing_info_question: a failed lookup gives None
get_missing_info_question(c, missing_field) ==
    QuestionFrom(GetItem(c, K_missing_info_questions), missing_field)

RECURSIVE Join(_, _)
Join(sep, strs) ==
    IF strs = <<>> THEN <<>>
    ELSE IF Len(strs) = 1 THEN strs[1]
    ELSE strs[1] \o sep \o Join(sep, Tail(strs))

\* the checks of get_missing_info_prompt_for_lead, in its order
MissingChecks(lead) ==
    <<[unmet |-> ~Truthy(lead.name), field |-> <<"name">>],
      [unmet |-> ~Truthy(lead.contact_person), field |-> <<"contact_person">>],
      [unmet |-> ~Truthy(lead.city) \/ ~Truthy(lead.state), field |-> <<"location">>],
      [unmet |-> ~Truthy(lead.estimated_rx_volume), field |-> <<"rx_volume">>]>>

\* one check's question r added to the questions collected so far
Asked(acc, r) ==
    [questions |-> IF Truthy(r.value) THEN Append(acc.questions, r.value.s)
                   ELSE acc.questions,
     cache |-> r.cache]

\* the questions get_missing_info_prompt_for_lead collects
RECURSIVE AskAll(_, _)
AskAll(checks, acc) ==
    IF checks = <<>> THEN acc
    ELSE IF ~Head(checks).unmet THEN AskAll(Tail(checks), acc)
    ELSE AskAll(Tail(checks),
                Asked(acc, get_missing_info_question(acc.cache, Head(checks).field)))

\* the return statements of get_missing_info_prompt_for_lead
PromptOf(asked) ==
    IF asked.questions = <<>> THEN Return(None, asked.cache)
    ELSE IF Len(asked.questions) = 1 THEN Return(StrV(asked.questions[1]), asked.cache)
    ELSE Return(StrV(<<" Also, ">> \o Join(<<" And ">>, asked.questions)), asked.cache)

\* PromptManager.get_missing_info_prompt_for_lead
get_missing_info_prompt_for_lead(c, lead) ==
    PromptOf(AskAll(MissingChecks(lead), [questions |-> <<>>, cache |-> c]))

\* .format(**args) on the looked-up template r, the lookup's error passed on
Formatted(r, args) == IF r.raised THEN r ELSE Return(Format(r.value, args), r.cache)

\* self[key].format(**args)
FormatTemplate(c, key, args) == Formatted(GetItem(c, key), args)

\* PromptManager.get_lead_assessment
get_lead_assessment(c, lead) ==
    LET volume == lead.estimated_rx_volume
    IN  IF ~Truthy(volume)
        THEN FormatTemplate(c, K_lead_assessment_unknown, [company_name |-> COMPANY_NAME])
        ELSE IF volume.t # "int"
        THEN Raise("TypeError", <<"'>=' not supported">>, c)
        ELSE IF volume.i >= 100
        THEN FormatTemplate(c, K_lead_assessment_high_volume,
                            [estimated_rx_volume |-> volume, company_name |-> COMPANY_NAME])
        ELSE IF volume.i >= 50
        THEN FormatTemplate(c, K_lead_assessment_medium_volume,
                            [estimated_rx_volume |-> volume, company_name |-> COMPANY_NAME])
        ELSE FormatTemplate(c, K_lead_assessment_low_volume,
                            [estimated_rx_volume |-> volume, company_name |-> COMPANY_NAME])

Unknown == StrV(<<"Unknown">>)

\* PromptManager.get_new_lead_system_prompt
get_new_lead_system_prompt(c, lead, lead_assessment) ==
    FormatTemplate(c, K_new_lead_system,
        [company_name |-> COMPANY_NAME,
         pharmacy_name |-> Or(lead.name, Unknown),
         contact_person |-> Or(lead.contact_person, Unknown),
         location |-> <<Or(lead.city, Unknown), Or(lead.state, Unknown)>>,
         estimated_rx_volume |-> Or(lead.estimated_rx_volume, Unknown),
         lead_assessment |-> lead_assessment])

\* PromptManager.get_returning_customer_system_prompt
get_returning_customer_system_prompt(c, pharmacy) ==
    LET volume_assessment ==
            IF is_high_volume(pharmacy)
            THEN <<"This is a high-volume pharmacy that's perfect for our services.">>
            ELSE <<"This pharmacy has growth potential.">>
    IN  FormatTemplate(c, K_returning_customer_system,
            [company_name |-> COMPANY_NAME,
             pharmacy_name |-> pharmacy.name,
             location |-> location(pharmacy),
             total_rx_volume |-> total_rx_volume(pharmacy),
             volume_assessment |-> volume_assessment])

\* the methods class PromptManager defines
PromptManagerMethods ==
    {"__init__", "__getitem__", "get_returning_customer_greeting",
     "get_new_lead_greeting", "get_returning_customer_system_prompt",
     "get_new_lead_system_prompt", "get_missing_info_question",
     "_parse_questions_file", "get_lead_assessment",
     "get_missing_info_prompt_for_lead", "reload_prompts"}


-----------------------------------------------------------------------------
(* pharmacy_service.py *)

\* initialize_conversation creating the lead whether or not a pharmacy was given
initialize_conversation_always_lead(caller_phone, pharmacy) ==
    LET ctx == [ConversationContext(caller_phone) EXCEPT
                    !.new_lead = NewPharmacyLead(caller_phone),
                    !.conversation_stage = "new_lead_greeting"]
    IN  IF pharmacy # None
        THEN [ctx EXCEPT !.pharmacy = pharmacy,
                         !.conversation_stage = "returning_customer_greeting"]
        ELSE ctx

\* initialize_conversation creating the lead without the caller's phone
initialize_conversation_lead_without_phone(caller_phone, pharmacy) ==
    LET ctx == ConversationContext(caller_phone)
    IN  IF pharmacy # None
        THEN [ctx EXCEPT !.pharmacy = pharmacy,
                         !.conversation_stage = "returning_customer_greeting"]
        ELSE [ctx EXCEPT !.new_lead = NewPharmacyLead(<<>>),
                         !.conversation_stage = "new_lead_greeting"]

\* initialize_conversation(caller_phone, pharmacy)
initialize_conversation(caller_phone, pharmacy) ==
    LET ctx == ConversationContext(caller_phone)
    IN  IF pharmacy # None
        THEN [ctx EXCEPT !.pharmacy = pharmacy,
                         !.conversation_stage = "returning_customer_greeting"]
        ELSE [ctx EXCEPT !.new_lead = NewPharmacyLead(caller_phone),
                         !.conversation_stage = "new_lead_greeting"]

-----------------------------------------------------------------------------
(* chatbot.py *)

UserTag == "User: "
BotTag == "Bot: "

\* the number of trailing history entries sent to the model
HistoryWindow == 6

\* conversation_history[-6:]
LastEntries(history) ==
    IF Len(history) <= HistoryWindow THEN history
    ELSE SubSeq(history, Len(history) - HistoryWindow + 1, Len(history))

\* the loop of _generate_ai_response over the history entries
RECURSIVE HistoryMessages(_)
HistoryMessages(history) ==
    IF history = <<>> THEN <<>>
    ELSE LET msg == Head(history)
         IN  IF StartsWith(msg, UserTag)
             THEN <<[role |-> "user", content |-> StrV(Tail(msg))]>>
                      \o HistoryMessages(Tail(history))
             ELSE IF StartsWith(msg, BotTag)
             THEN <<[role |-> "assistant", content |-> StrV(Tail(msg))]>>
                      \o HistoryMessages(Tail(history))
             ELSE HistoryMessages(Tail(history))

\* the request _generate_ai_response builds
ReplyRequest(system_prompt, message, conversation_history) ==
    <<[role |-> "system", content |-> system_prompt]>>
        \o HistoryMessages(LastEntries(conversation_history))
        \o <<[role |-> "user", content |-> StrV(message)]>>

\* a model call that is issued a second time when the first attempt fails
CompletionRetrying(call, api) ==
    IF ~api.ok
    THEN [raised |-> TRUE,
          value |-> [exc |-> "ChatbotError",
                     text |-> <<"Failed to generate AI response: ">> \o api.error],
          calls |-> <<call, call>>]
    ELSE IF api.content = None
    THEN [raised |-> TRUE,
          value |-> [exc |-> "ChatbotError",
                     text |-> <<"Failed to generate AI response: ",
                                "'NoneType' object has no attribute 'strip'">>],
          calls |-> <<call>>]
    ELSE [raised |-> FALSE, value |-> StrV(Strip(api.content.s)), calls |-> <<call>>]

\* the model call of _generate_ai_response and what becomes of its answer
Completion(call, api) ==
    IF ~api.ok
    THEN [raised |-> TRUE,
          value |-> [exc |-> "ChatbotError",
                     text |-> <<"Failed to generate AI response: ">> \o api.error],
          calls |-> <<call>>]
    ELSE IF api.content = None
    THEN [raised |-> TRUE,
          value |-> [exc |-> "ChatbotError",
                     text |-> <<"Failed to generate AI response: ",
                                "'NoneType' object has no attribute 'strip'">>],
          calls |-> <<call>>]
    ELSE [raised |-> FALSE, value |-> StrV(Strip(api.content.s)), calls |-> <<call>>]

\* PharmacyChatbot._generate_ai_response; api is what the model call does
generate_ai_response(system_prompt, message, conversation_history, api) ==
    Completion([kind |-> "reply",
                messages |-> ReplyRequest(system_prompt, message, conversation_history)],
               api)

\* a fallback that starts the lead over before applying its heuristics
extract_lead_info_fallback_resetting(lead, message) == NewPharmacyLead(lead.phone)

\* a fallback whose heuristic takes the message for the pharmacy's name
extract_lead_info_fallback_overwriting(lead, message) ==
    [lead EXCEPT !.name = StrV(message)]

\* a fallback that drops the field it could not re-derive from the message
extract_lead_info_fallback_clearing(lead, message) ==
    [lead EXCEPT !.contact_person = None]

\* PharmacyChatbot._extract_lead_info_fallback: a docstring and no statement
extract_lead_info_fallback(lead, message) == lead

\* dict.get(key) of the parsed extraction result
Get(extracted_data, key) ==
    IF key \in DOMAIN extracted_data THEN extracted_data[key] ELSE None

\* one "if not lead.<field> and extracted_data.get(<key>)" of the extraction
SetIfUnset(current, extracted_data, key) ==
    IF ~Truthy(current) /\ Truthy(Get(extracted_data, key))
    THEN extracted_data[key]
    ELSE current

\* the six field updates of _extract_lead_info_with_openai
ApplyExtractedData(lead, extracted_data) ==
    [lead EXCEPT
        !.name = SetIfUnset(lead.name, extracted_data, "pharmacy_name"),
        !.contact_person = SetIfUnset(lead.contact_person, extracted_data, "contact_person"),
        !.city = SetIfUnset(lead.city, extracted_data, "city"),
        !.state = SetIfUnset(lead.state, extracted_data, "state"),
        !.estimated_rx_volume =
            SetIfUnset(lead.estimated_rx_volume, extracted_data, "estimated_rx_volume"),
        !.preferred_contact =
            SetIfUnset(lead.preferred_contact, extracted_data, "preferred_contact")]

LeadFields ==
    {"name", "contact_person", "city", "state", "estimated_rx_volume", "preferred_contact"}

\* the extraction once its request (call) is built: the model call, json.loads and
\* the field updates.  A JSON value that is no object has no .get: the first
\* .get evaluated raises, and one is evaluated when some field is unset.
Extracted(lead, message, call, api) ==
    IF ~api.ok \/ api.content = None
    THEN [lead |-> extract_lead_info_fallback(lead, message), calls |-> <<call>>,
          status |-> "failed"]
    ELSE IF api.content.json = "object"
    THEN [lead |-> ApplyExtractedData(lead, api.content.data), calls |-> <<call>>,
          status |-> "applied"]
    ELSE IF api.content.json = "invalid" \/ \E f \in LeadFields : ~Truthy(lead[f])
    THEN [lead |-> extract_lead_info_fallback(lead, message), calls |-> <<call>>,
          status |-> "failed"]
    ELSE [lead |-> lead, calls |-> <<call>>, status |-> "applied"]

\* PharmacyChatbot._extract_lead_info_with_openai; api is what the model call
\* would do.  self.prompt_manager.get_extraction_prompt is looked up first, inside
\* the try: PromptManager defines no such method, so the lookup raises
\* AttributeError and the except branch runs the fallback.
extract_lead_info_with_openai(lead, message, api) ==
    IF "get_extraction_prompt" \notin PromptManagerMethods
    THEN [lead |-> extract_lead_info_fallback(lead, message), calls |-> <<>>,
          status |-> "failed"]
    ELSE Extracted(lead, message,
                   [kind |-> "extraction",
                    messages |-> <<[role |-> "user",
                                    content |-> StrV(<<"lead_information">> \o message)]>>],
                   api)

\* what a handler hands back to process_user_message
Handled(raised, branch, value, cs, c) ==
    [raised |-> raised, branch |-> branch, value |-> value, calls |-> cs, cache |-> c]

\* the return of _generate_ai_response's result r by a handler
Generated(r, c) == Handled(r.raised, "generate", r.value, r.calls, c)

\* a handler's last line: the model's reply under the formatted system prompt
ReplyUnder(system_prompt, message, conversation_history, api) ==
    IF system_prompt.raised
    THEN Handled(TRUE, "generate", system_prompt.value, <<>>, system_prompt.cache)
    ELSE Generated(generate_ai_response(system_prompt.value, message,
                                        conversation_history, api),
                   system_prompt.cache)

\* _handle_new_lead once the lead's assessment is known
ReplyWithAssessment(assessment, lead, message, conversation_history, api) ==
    IF assessment.raised
    THEN Handled(TRUE, "generate", assessment.value, <<>>, assessment.cache)
    ELSE ReplyUnder(get_new_lead_system_prompt(assessment.cache, lead, assessment.value),
                    message, conversation_history, api)

\* _handle_new_lead without its second "if missing_info_prompt": the model
\* replies whatever is still missing
ReplyToLeadUnchecked(prompt, lead, message, conversation_history, api) ==
    ReplyWithAssessment(get_lead_assessment(prompt.cache, lead), lead, message,
                        conversation_history, api)

\* _handle_new_lead once the missing-info prompt is known: the collection
\* question when something is missing, else the model's reply
ReplyToLead(prompt, lead, message, conversation_history, api) ==
    IF Truthy(prompt.value)
    THEN Handled(FALSE, "collect",
                 StrV(<<"Thanks for that information! ">> \o prompt.value.s), <<>>,
                 prompt.cache)
    ELSE ReplyWithAssessment(get_lead_assessment(prompt.cache, lead), lead, message,
                             conversation_history, api)

\* the rest of PharmacyChatbot._handle_new_lead, from the second
\* get_missing_info_prompt_for_lead on (or from the first, when it found nothing
\* missing)
handle_new_lead_reply(c, lead, message, conversation_history, api) ==
    ReplyToLead(get_missing_info_prompt_for_lead(c, lead), lead, message,
                conversation_history, api)

\* a returning-customer handler that runs the lead extraction call first
handle_returning_customer_extracting(c, pharmacy, message, conversation_history, api) ==
    LET r == ReplyUnder(get_returning_customer_system_prompt(c, pharmacy), message,
                        conversation_history, api)
    IN  Handled(r.raised, r.branch, r.value,
                <<[kind |-> "extraction",
                   messages |-> <<[role |-> "user", content |-> StrV(message)]>>]>>
                    \o r.calls,
                r.cache)

\* PharmacyChatbot._handle_returning_customer
handle_returning_customer(c, pharmacy, message, conversation_history, api) ==
    ReplyUnder(get_returning_customer_system_prompt(c, pharmacy), message,
               conversation_history, api)

\* an except branch that tells the caller what went wrong
error_response_with_cause(e) ==
    <<"I apologize, but I'm having trouble processing your message right now. ">>
        \o e.text

\* the except branch of process_user_message: the reply for exception e
error_response(e) ==
    <<"I apologize, but I'm having trouble processing your message right now. ",
      "Please call us directly at ">> \o COMPANY_PHONE
        \o <<" ", "and we'll be happy to help!">>

\* the entry process_user_message appends for the inbound message
UserEntry(message) == <<UserTag>> \o message

\* a reply entry that lost its tag
BotEntryUntagged(response) == response

\* the entry process_user_message appends for its reply
BotEntry(response) == <<BotTag>> \o response


-----------------------------------------------------------------------------
(* Inputs *)

\* the pharmacies a caller can be recognised as
Directory ==
    {[id |-> 1, name |-> <<"HealthFirst Pharmacy">>, phone |-> <<"+1-555-123-4567">>,
      email |-> StrV(<<"contact@healthfirst.com">>), city |-> <<"New York">>,
      state |-> <<"NY">>,
      prescriptions |-> <<Prescription("Lisinopril", 60), Prescription("Metformin", 40)>>],
     [id |-> 2, name |-> <<"QuickMeds Rx">>, phone |-> <<"+1-555-987-6543">>,
      email |-> None, city |-> <<"Austin">>, state |-> <<"TX">>,
      prescriptions |-> <<Prescription("Atorvastatin", 60), Prescription("Losartan", 41)>>]}

CallerPhones == {<<"+1-555-999-0000">>, <<"+1-555-123-4567">>}

\* inbound messages; the second starts with the text of a history tag
UserMessages == {<<"Hi, I run Metro Pharmacy">>, <<BotTag, UserTag, "hello">>}

\* what a model call can do: raise, answer without content, answer with text
ReplyOutcomes ==
    {[ok |-> FALSE, error |-> <<"Connection error.">>],
     [ok |-> TRUE, content |-> None],
     [ok |-> TRUE, content |-> StrV(<<" ", "We can help with that.", "\n">>)]}

\* what the extraction call can answer: no JSON, a JSON array, JSON objects
ExtractionOutcomes ==
    {[ok |-> FALSE, error |-> <<"Connection error.">>],
     [ok |-> TRUE, content |-> [json |-> "invalid"]],
     [ok |-> TRUE, content |-> [json |-> "array"]],
     [ok |-> TRUE,
      content |-> [json |-> "object",
                   data |-> [pharmacy_name |-> StrV(<<"Metro Pharmacy">>),
                             contact_person |-> None,
                             city |-> StrV(<<>>),
                             estimated_rx_volume |-> StrV(<<"about 150">>)]]],
     [ok |-> TRUE,
      content |-> [json |-> "object",
                   data |-> [pharmacy_name |-> StrV(<<"Other Pharmacy">>),
                             contact_person |-> StrV(<<"Sarah">>),
                             city |-> StrV(<<"Denver">>),
                             state |-> StrV(<<"Colorado">>),
                             estimated_rx_volume |-> IntV(150),
                             preferred_contact |-> StrV(<<"phone">>)]]]}

\* the leads a caller of process_user_message can pass in
LeadStates ==
    [phone : {<<"+1-555-999-0000">>},
     name : {None, StrV(<<>>), StrV(<<"Metro Pharmacy">>)},
     contact_person : {None, StrV(<<"Sarah">>)},
     city : {None, StrV(<<"Denver">>)},
     state : {None, StrV(<<"Colorado">>)},
     estimated_rx_volume : {None, IntV(0), IntV(50), IntV(100)},
     preferred_contact : {None}]

NoOutcome == [raised |-> FALSE, branch |-> "none", value |-> None]

\* no function has been called on its own yet
NoAnswer == [op |-> "none"]

-----------------------------------------------------------------------------
(* The state machine *)

Init ==
    /\ context = None
    /\ lookup = None
    /\ pc = "start"
    /\ user_message = <<>>
    /\ outcome = NoOutcome
    /\ extraction = "none"
    /\ calls = <<>>
    /\ last_response = <<>>
    /\ turn_log = <<>>
    /\ cache = <<>>
    /\ disk = [k \in TemplateFiles |-> "ok"]
    /\ prompt_manager = "ready"
    /\ pharmacies = <<>>
    /\ answer = NoAnswer
    /\ io = <<>>
    /\ actions = <<>>
    /\ lookups = <<>>

\* a session starts: initialize_conversation(caller_phone, pharmacy)
InitializeConversation ==
    /\ pc = "start"
    /\ \E caller_phone \in CallerPhones, pharmacy \in Directory \cup {None} :
          /\ context' = initialize_conversation(caller_phone, pharmacy)
          /\ lookup' = pharmacy
    /\ pc' = "idle"
    /\ UNCHANGED <<actions, lookups>>
    /\ UNCHANGED <<prompt_manager, pharmacies, answer, io>>
    /\ UNCHANGED <<user_message, outcome, extraction, calls, last_response, turn_log,
                   cache, disk>>

\* process_user_message is called: the inbound message is appended to the history
ProcessUserMessage ==
    /\ pc = "idle"
    /\ Len(turn_log) < MaxTurns
    /\ \E message \in UserMessages :
          /\ user_message' = message
          /\ context' = [context EXCEPT !.messages = Append(@, UserEntry(message))]
    /\ pc' = "handle"
    /\ outcome' = NoOutcome
    /\ extraction' = "none"
    /\ calls' = <<>>
    /\ UNCHANGED <<actions, lookups>>
    /\ UNCHANGED <<prompt_manager, pharmacies, answer, io>>
    /\ UNCHANGED <<lookup, last_response, turn_log, cache, disk>>

\* the returning-customer branch: the system prompt and the model's reply
HandleReturningCustomer ==
    /\ pc = "handle"
    /\ is_returning_customer(context)
    /\ \E api \in ReplyOutcomes :
          LET r == handle_returning_customer(cache, context.pharmacy, user_message,
                                             context.messages, api)
          IN  /\ outcome' = [raised |-> r.raised, branch |-> r.branch, value |-> r.value]
              /\ calls' = calls \o r.calls
              /\ cache' = r.cache
    /\ pc' = "respond"
    /\ UNCHANGED <<actions, lookups>>
    /\ UNCHANGED <<prompt_manager, pharmacies, answer, io>>
    /\ UNCHANGED <<context, lookup, user_message, extraction, last_response, turn_log,
                   disk>>

\* _handle_new_lead up to the extraction: something is missing, so extraction is
\* attempted
ExtractLeadInfo ==
    /\ pc = "handle"
    /\ ~is_returning_customer(context)
    /\ LET prompt == get_missing_info_prompt_for_lead(cache, context.new_lead)
       IN  /\ Truthy(prompt.value)
           /\ cache' = prompt.cache
    /\ \E api \in ExtractionOutcomes :
          LET r == extract_lead_info_with_openai(context.new_lead, user_message, api)
          IN  /\ context' = [context EXCEPT !.new_lead = r.lead]
              /\ calls' = calls \o r.calls
              /\ extraction' = r.status
    /\ pc' = "extracted"
    /\ UNCHANGED <<actions, lookups>>
    /\ UNCHANGED <<prompt_manager, pharmacies, answer, io>>
    /\ UNCHANGED <<lookup, user_message, outcome, last_response, turn_log, disk>>

\* _handle_new_lead after the extraction, or from its start when nothing is missing
HandleNewLead ==
    /\ IF pc = "handle"
       THEN /\ ~is_returning_customer(context)
            /\ ~Truthy(get_missing_info_prompt_for_lead(cache, context.new_lead).value)
       ELSE pc = "extracted"
    /\ \E api \in ReplyOutcomes :
          LET r == handle_new_lead_reply(cache, context.new_lead, user_message,
                                         context.messages, api)
          IN  /\ outcome' = [raised |-> r.raised, branch |-> r.branch, value |-> r.value]
              /\ calls' = calls \o r.calls
              /\ cache' = r.cache
    /\ pc' = "respond"
    /\ UNCHANGED <<actions, lookups>>
    /\ UNCHANGED <<prompt_manager, pharmacies, answer, io>>
    /\ UNCHANGED <<context, lookup, user_message, extraction, last_response, turn_log,
                   disk>>

CountCalls(cs, kind) == Cardinality({i \in 1..Len(cs) : cs[i].kind = kind})

\* process_user_message ends: the reply, or the apology when the handler raised,
\* is appended to the history and returned
Respond ==
    /\ pc = "respond"
    /\ LET response == IF outcome.raised THEN error_response(outcome.value)
                       ELSE outcome.value.s
       IN  /\ context' = [context EXCEPT !.messages = Append(@, BotEntry(response))]
           /\ last_response' = response
    /\ turn_log' = Append(turn_log,
                          [branch |-> outcome.branch, raised |-> outcome.raised,
                           error |-> IF outcome.raised THEN outcome.value.exc ELSE "none",
                           extraction |-> extraction,
                           extraction_calls |-> CountCalls(calls, "extraction"),
                           reply_calls |-> CountCalls(calls, "reply")])
    /\ pc' = "idle"
    /\ UNCHANGED <<actions, lookups>>
    /\ UNCHANGED <<prompt_manager, pharmacies, answer, io>>
    /\ UNCHANGED <<lookup, user_message, outcome, extraction, calls, cache, disk>>

Next ==
    \/ InitializeConversation
    \/ ProcessUserMessage
    \/ HandleReturningCustomer
    \/ ExtractLeadInfo
    \/ HandleNewLead
    \/ Respond

Spec == Init /\ [][Next]_vars

\* process_user_message called on a lead context its caller built
InitLead ==
    /\ \E lead \in LeadStates :
          context = [ConversationContext(lead.phone) EXCEPT
                        !.new_lead = lead, !.conversation_stage = "new_lead_greeting"]
    /\ lookup = None
    /\ pc = "idle"
    /\ user_message = <<>>
    /\ outcome = NoOutcome
    /\ extraction = "none"
    /\ calls = <<>>
    /\ last_response = <<>>
    /\ turn_log = <<>>
    /\ cache = <<>>
    /\ disk = [k \in TemplateFiles |-> "ok"]
    /\ prompt_manager = "ready"
    /\ pharmacies = <<>>
    /\ answer = NoAnswer
    /\ io = <<>>
    /\ actions = <<>>
    /\ lookups = <<>>

NextLead ==
    \/ ProcessUserMessage
    \/ ExtractLeadInfo
    \/ HandleNewLead
    \/ Respond

SpecLead == InitLead /\ [][NextLead]_vars

\* a session of either kind: one begun by initialize_conversation, or a lead
\* context handed to process_user_message by its caller
InitAny == Init \/ InitLead

SpecAny == InitAny /\ [][Next]_vars


\* the prompts directory as deployed, or with one template missing or unreadable
TemplateDisks ==
    {[k \in TemplateFiles |-> "ok"]}
        \cup {[k \in TemplateFiles |-> IF k = broken THEN status ELSE "ok"] :
                 broken \in TemplateFiles, status \in {"missing", "unreadable"}}

\* the leads whose turns reach the assessment and system-prompt templates, and
\* a fresh one
TemplateLeads ==
    {NewPharmacyLead(<<"+1-555-999-0000">>)}
        \cup {[phone |-> <<"+1-555-999-0000">>, name |-> StrV(<<"Metro Pharmacy">>),
               contact_person |-> StrV(<<"Sarah">>), city |-> StrV(<<"Denver">>),
               state |-> StrV(<<"Colorado">>), estimated_rx_volume |-> IntV(v),
               preferred_contact |-> None] : v \in {49, 50, 100}}

\* a bot whose prompts directory may lack a template: a session about to be
\* initialized, or a lead context handed to process_user_message
InitTemplates ==
    /\ \/ /\ context = None
          /\ pc = "start"
       \/ /\ \E lead \in TemplateLeads :
                context = [ConversationContext(lead.phone) EXCEPT
                              !.new_lead = lead,
                              !.conversation_stage = "new_lead_greeting"]
          /\ pc = "idle"
    /\ lookup = None
    /\ user_message = <<>>
    /\ outcome = NoOutcome
    /\ extraction = "none"
    /\ calls = <<>>
    /\ last_response = <<>>
    /\ turn_log = <<>>
    /\ cache = <<>>
    /\ disk \in TemplateDisks
    /\ prompt_manager = "ready"
    /\ pharmacies = <<>>
    /\ answer = NoAnswer
    /\ io = <<>>
    /\ actions = <<>>
    /\ lookups = <<>>

SpecTemplates == InitTemplates /\ [][Next]_vars

-----------------------------------------------------------------------------
(* The lead's functions called on their own, as the tests and main.py call them *)

\* the values a caller gives a lead's fields, by field
LeadFieldValues ==
    [name |-> {None, StrV(<<>>), StrV(<<"Metro Pharmacy">>)},
     contact_person |-> {None, StrV(<<"Sarah">>)},
     city |-> {None, StrV(<<"Denver">>)},
     state |-> {None, StrV(<<"Colorado">>)},
     estimated_rx_volume |-> {None, IntV(0), IntV(49), IntV(50), IntV(99), IntV(100)},
     preferred_contact |-> {None, StrV(<<"phone">>)}]

\* an unknown caller's session: a fresh lead with only its phone set
InitLeadForm ==
    /\ context = initialize_conversation(<<"+1-555-999-0000">>, None)
    /\ lookup = None
    /\ pc = "idle"
    /\ user_message = <<>>
    /\ outcome = NoOutcome
    /\ extraction = "none"
    /\ calls = <<>>
    /\ last_response = <<>>
    /\ turn_log = <<>>
    /\ cache = <<>>
    /\ disk = [k \in TemplateFiles |-> "ok"]
    /\ prompt_manager = "ready"
    /\ pharmacies = <<>>
    /\ answer = NoAnswer
    /\ io = <<>>
    /\ actions = <<>>
    /\ lookups = <<>>

\* lead.<field> = value
SetLeadField ==
    /\ \E f \in LeadFields :
          \E v \in LeadFieldValues[f] :
              /\ context.new_lead[f] # v
              /\ context' = [context EXCEPT !.new_lead[f] = v]
    /\ answer' = NoAnswer
    /\ UNCHANGED <<actions, lookups>>
    /\ UNCHANGED <<lookup, pc, user_message, outcome, extraction, calls, last_response,
                   turn_log, cache, disk, prompt_manager, pharmacies, io>>

\* prompt_manager.get_missing_info_prompt_for_lead(lead)
GetMissingInfoPromptForLead ==
    /\ LET r == get_missing_info_prompt_for_lead(cache, context.new_lead)
       IN  /\ answer' = [op |-> "get_missing_info_prompt_for_lead", raised |-> r.raised,
                         value |-> r.value]
           /\ cache' = r.cache
    /\ UNCHANGED <<actions, lookups>>
    /\ UNCHANGED <<session, disk, prompt_manager, pharmacies, io>>

\* prompt_manager.get_lead_assessment(lead)
GetLeadAssessment ==
    /\ LET r == get_lead_assessment(cache, context.new_lead)
       IN  /\ answer' = [op |-> "get_lead_assessment", raised |-> r.raised,
                         value |-> r.value]
           /\ cache' = r.cache
    /\ UNCHANGED <<actions, lookups>>
    /\ UNCHANGED <<session, disk, prompt_manager, pharmacies, io>>

\* lead.is_complete
IsComplete ==
    /\ answer' = [op |-> "is_complete", raised |-> FALSE,
                  value |-> is_complete(context.new_lead)]
    /\ UNCHANGED <<actions, lookups>>
    /\ UNCHANGED <<session, cache, disk, prompt_manager, pharmacies, io>>

NextLeadForm ==
    \/ SetLeadField
    \/ GetMissingInfoPromptForLead
    \/ GetLeadAssessment
    \/ IsComplete

SpecLeadForm == InitLeadForm /\ [][NextLeadForm]_vars

-----------------------------------------------------------------------------
(* The pharmacy directory: pharmacy_service.py and the Pharmacy model called on
   their own.  Here a phone number is the sequence of its characters. *)

\* the characters str.isdigit accepts, among those the inputs below use
DigitChars == {"0", "1", "2", "3", "4", "5", "6", "7", "8", "9"}

\* a normalisation that keeps the international prefix sign
RECURSIVE normalize_phone_number_keeping_plus(_)
normalize_phone_number_keeping_plus(phone) ==
    IF phone = <<>> THEN <<>>
    ELSE IF Head(phone) \in DigitChars \cup {"+"}
    THEN <<Head(phone)>> \o normalize_phone_number_keeping_plus(Tail(phone))
    ELSE normalize_phone_number_keeping_plus(Tail(phone))

\* normalize_phone_number: ''.join(filter(str.isdigit, phone))
RECURSIVE normalize_phone_number(_)
normalize_phone_number(phone) ==
    IF phone = <<>> THEN <<>>
    ELSE IF Head(phone) \in DigitChars
    THEN <<Head(phone)>> \o normalize_phone_number(Tail(phone))
    ELSE normalize_phone_number(Tail(phone))

\* a scan that keeps the latest match instead of returning at the first
RECURSIVE find_pharmacy_by_phone_last_match(_, _)
find_pharmacy_by_phone_last_match(records, phone) ==
    IF records = <<>> THEN None
    ELSE LET last == records[Len(records)]
         IN  IF normalize_phone_number(last.phone) = normalize_phone_number(phone)
             THEN last
             ELSE find_pharmacy_by_phone_last_match(SubSeq(records, 1, Len(records) - 1),
                                                    phone)

\* find_pharmacy_by_phone: the loop over the list, returning at the first match
RECURSIVE find_pharmacy_by_phone(_, _)
find_pharmacy_by_phone(records, phone) ==
    IF records = <<>> THEN None
    ELSE IF normalize_phone_number(Head(records).phone) = normalize_phone_number(phone)
    THEN Head(records)
    ELSE find_pharmacy_by_phone(Tail(records), phone)

Phone_Dashed == <<"+", "1", "-", "5", "5", "5", "-", "1", "2", "3", "-", "4", "5", "6", "7">>
Phone_Digits == <<"1", "5", "5", "5", "1", "2", "3", "4", "5", "6", "7">>
Phone_Spaced == <<"1", " ", "(", "5", "5", "5", ")", " ", "1", "2", "3", ".", "4", "5", "6", "7">>
Phone_Local == <<"(", "5", "5", "5", ")", " ", "9", "8", "7", "-", "6", "5", "4", "3">>
Phone_Other == <<"+", "1", "-", "5", "5", "5", "-", "9", "9", "9", "-", "0", "0", "0", "0">>
Phone_Unknown == <<"+", "1", "-", "5", "5", "5", "-", "U", "N", "K", "N", "O", "W", "N">>
Phone_Lettered == <<"5", "5", "5", "-", "C", "I", "T", "Y", "-", "R", "X">>

\* the records the pharmacy API can return; the first two have the same digits
\* in their phone numbers, the third has no prescriptions
PharmacyRecords ==
    {[id |-> 1, name |-> <<"HealthFirst Pharmacy">>, phone |-> Phone_Dashed,
      email |-> StrV(<<"contact@healthfirst.com">>), city |-> <<"New York">>,
      state |-> <<"NY">>,
      prescriptions |-> <<Prescription("Lisinopril", 60), Prescription("Metformin", 40)>>],
     [id |-> 2, name |-> <<"QuickMeds Rx">>, phone |-> Phone_Digits,
      email |-> None, city |-> <<"Austin">>, state |-> <<"TX">>,
      prescriptions |-> <<Prescription("Atorvastatin", 60), Prescription("Losartan", 41)>>],
     [id |-> 3, name |-> <<"MediCare Plus">>, phone |-> Phone_Local,
      email |-> None, city |-> <<"Chicago">>, state |-> <<"IL">>,
      prescriptions |-> <<>>],
     [id |-> 4, name |-> <<"City Pharmacy">>, phone |-> Phone_Lettered,
      email |-> None, city |-> <<"Miami">>, state |-> <<"FL">>,
      prescriptions |-> <<Prescription("Amlodipine", 50), Prescription("Metformin", 30),
                          Prescription("Losartan", 21)>>]}

\* the longest pharmacy list the model fetches
MaxPharmacies == 2

\* the lists fetch_all_pharmacies_sync can return
PharmacyLists == UNION {[1..n -> PharmacyRecords] : n \in 0..MaxPharmacies}

\* the phone numbers callers type
PhoneInputs ==
    {Phone_Dashed, Phone_Digits, Phone_Spaced, Phone_Local, Phone_Other, Phone_Unknown,
     <<>>}

\* the program starts: no pharmacy list yet
InitDirectory ==
    /\ context = None
    /\ lookup = None
    /\ pc = "start"
    /\ user_message = <<>>
    /\ outcome = NoOutcome
    /\ extraction = "none"
    /\ calls = <<>>
    /\ last_response = <<>>
    /\ turn_log = <<>>
    /\ cache = <<>>
    /\ disk = [k \in TemplateFiles |-> "ok"]
    /\ prompt_manager = "ready"
    /\ pharmacies = <<>>
    /\ answer = NoAnswer
    /\ io = <<>>
    /\ actions = <<>>
    /\ lookups = <<>>

\* load_pharmacy_data: the list the API returned, or [] when the fetch failed
LoadPharmacyData ==
    /\ answer = NoAnswer
    /\ pharmacies = <<>>
    /\ \E records \in PharmacyLists : pharmacies' = records
    /\ answer' = [op |-> "load_pharmacy_data"]
    /\ UNCHANGED <<actions, lookups>>
    /\ UNCHANGED <<session, cache, disk, prompt_manager, io>>

\* pharmacy.total_rx_volume of a loaded pharmacy
TotalRxVolume ==
    /\ answer # NoAnswer
    /\ \E i \in 1..Len(pharmacies) :
          answer' = [op |-> "total_rx_volume", arg |-> pharmacies[i],
                     value |-> total_rx_volume(pharmacies[i])]
    /\ UNCHANGED <<actions, lookups>>
    /\ UNCHANGED <<session, cache, disk, prompt_manager, pharmacies, io>>

\* pharmacy.is_high_volume of a loaded pharmacy
IsHighVolume ==
    /\ answer # NoAnswer
    /\ \E i \in 1..Len(pharmacies) :
          answer' = [op |-> "is_high_volume", arg |-> pharmacies[i],
                     value |-> is_high_volume(pharmacies[i])]
    /\ UNCHANGED <<actions, lookups>>
    /\ UNCHANGED <<session, cache, disk, prompt_manager, pharmacies, io>>

\* normalize_phone_number(phone), on a typed number or on an earlier result
NormalizePhoneNumber ==
    /\ answer # NoAnswer
    /\ \E phone \in PhoneInputs \cup (IF answer.op = "normalize_phone_number"
                                      THEN {answer.value} ELSE {}) :
          answer' = [op |-> "normalize_phone_number", arg |-> phone,
                     value |-> normalize_phone_number(phone),
                     before |-> IF answer.op = "normalize_phone_number"
                                THEN <<[arg |-> answer.arg, value |-> answer.value]>>
                                ELSE <<>>]
    /\ UNCHANGED <<actions, lookups>>
    /\ UNCHANGED <<session, cache, disk, prompt_manager, pharmacies, io>>

\* find_pharmacy_by_phone(pharmacies, phone)
FindPharmacyByPhone ==
    /\ answer # NoAnswer
    /\ \E phone \in PhoneInputs :
          answer' = [op |-> "find_pharmacy_by_phone", arg |-> phone,
                     value |-> find_pharmacy_by_phone(pharmacies, phone)]
    /\ UNCHANGED <<actions, lookups>>
    /\ UNCHANGED <<session, cache, disk, prompt_manager, pharmacies, io>>

NextDirectory ==
    \/ LoadPharmacyData
    \/ TotalRxVolume
    \/ IsHighVolume
    \/ NormalizePhoneNumber
    \/ FindPharmacyByPhone

SpecDirectory == InitDirectory /\ [][NextDirectory]_vars

-----------------------------------------------------------------------------
(* The template store used on its own: PromptManager constructed on a prompts
   directory, looked up with pm[path], reloaded, while files come and go *)

\* the prompts directory itself, as an entry of the disk
PromptsDir == <<".">>

K_new_lead_greeting == <<"responses/new_lead_greeting">>
K_non_existent_template == <<"responses/non_existent_template">>

\* the files of the prompts directory in this use of the store
StoreFiles == {Append(K_new_lead_greeting, TXT), Append(K_missing_info_questions, TXT)}

\* the paths looked up: a key with and without ".txt", a second key, and a key
\* that never has a file
StorePaths ==
    {K_new_lead_greeting, Append(K_new_lead_greeting, TXT), K_missing_info_questions,
     K_non_existent_template}

\* the number of lookups and reloads made on the store
MaxStoreOps == 3

StoreOps == Cardinality({i \in 1..Len(io) : io[i].ev \in {"lookup", "reload"}})

\* before PromptManager(prompts_dir): the directory is there with its files, or
\* it is not there at all
InitStore ==
    /\ context = None
    /\ lookup = None
    /\ pc = "start"
    /\ user_message = <<>>
    /\ outcome = NoOutcome
    /\ extraction = "none"
    /\ calls = <<>>
    /\ last_response = <<>>
    /\ turn_log = <<>>
    /\ cache = <<>>
    /\ \E dir \in {"ok", "missing"} :
          disk = [k \in StoreFiles \cup {PromptsDir} |-> dir]
    /\ prompt_manager = "unset"
    /\ pharmacies = <<>>
    /\ answer = NoAnswer
    /\ io = <<>>
    /\ actions = <<>>
    /\ lookups = <<>>

\* PromptManager.__init__: fails when the directory does not exist
Construct ==
    /\ prompt_manager = "unset"
    /\ answer = NoAnswer
    /\ IF disk[PromptsDir] = "missing"
       THEN /\ answer' = [op |-> "PromptManager", raised |-> TRUE,
                          value |-> [exc |-> "FileNotFoundError",
                                     text |-> <<"Prompts directory not found: ">>
                                                  \o PromptsDir]]
            /\ UNCHANGED <<prompt_manager, cache>>
       ELSE /\ answer' = [op |-> "PromptManager", raised |-> FALSE, value |-> None]
            /\ prompt_manager' = "ready"
            /\ cache' = <<>>
    /\ UNCHANGED <<actions, lookups>>
    /\ UNCHANGED <<session, disk, pharmacies, io>>

\* pm[prompt_path]
LookUp ==
    /\ prompt_manager = "ready"
    /\ StoreOps < MaxStoreOps
    /\ \E prompt_path \in StorePaths :
          LET r == GetItem(cache, prompt_path)
          IN  /\ cache' = r.cache
              /\ io' = Append(io, [ev |-> "lookup", path |-> prompt_path,
                                   raised |-> r.raised, value |-> r.value,
                                   reads |-> r.reads])
    /\ UNCHANGED <<actions, lookups>>
    /\ UNCHANGED <<session, disk, prompt_manager, pharmacies, answer>>

\* pm.reload_prompts(): self._cache.clear()
ReloadPrompts ==
    /\ prompt_manager = "ready"
    /\ StoreOps < MaxStoreOps
    /\ cache' = <<>>
    /\ io' = Append(io, [ev |-> "reload"])
    /\ UNCHANGED <<actions, lookups>>
    /\ UNCHANGED <<session, disk, prompt_manager, pharmacies, answer>>

\* between two calls a template file is edited, removed, made unreadable or
\* restored
ChangeFile ==
    /\ prompt_manager = "ready"
    /\ \E status \in {"ok", "edited", "missing", "unreadable"} :
          /\ disk[Append(K_new_lead_greeting, TXT)] # status
          /\ disk' = [disk EXCEPT ![Append(K_new_lead_greeting, TXT)] = status]
    /\ UNCHANGED <<actions, lookups>>
    /\ UNCHANGED <<session, cache, prompt_manager, pharmacies, answer, io>>

NextStore ==
    \/ Construct
    \/ LookUp
    \/ ReloadPrompts
    \/ ChangeFile

SpecStore == InitStore /\ [][NextStore]_vars

-----------------------------------------------------------------------------
(* One template store shared by several sessions: each statement of
   __getitem__ is a step of the session executing it, and the sessions' steps
   and reload_prompts() interleave in any order *)

Sessions == {1, 2}

\* the paths the sharing sessions look up: one key, written both ways
SharedPaths == {K_new_lead_greeting, Append(K_new_lead_greeting, TXT)}

\* a session outside __getitem__, with the result of its last lookup
Idle(result) == [at |-> "idle", cache_key |-> <<>>, content |-> <<>>, result |-> result]

NoResult == [raised |-> FALSE, value |-> <<>>]

InitShared ==
    /\ context = None
    /\ lookup = None
    /\ pc = "start"
    /\ user_message = <<>>
    /\ outcome = NoOutcome
    /\ extraction = "none"
    /\ calls = <<>>
    /\ last_response = <<>>
    /\ turn_log = <<>>
    /\ cache = <<>>
    /\ disk = [k \in {Append(K_new_lead_greeting, TXT)} |-> "ok"]
    /\ prompt_manager = "ready"
    /\ pharmacies = <<>>
    /\ answer = NoAnswer
    /\ io = <<>>
    /\ actions = <<>>
    /\ lookups = [s \in Sessions |-> Idle(NoResult)]

\* what every step of a sharing session leaves alone
SharedFrame == UNCHANGED <<session, prompt_manager, pharmacies, answer, io, actions>>

\* a session enters pm[prompt_path]: the cache key is computed
EnterGetItem ==
    /\ \E s \in Sessions, prompt_path \in SharedPaths :
          /\ lookups[s].at = "idle"
          /\ lookups' = [lookups EXCEPT ![s] = [at |-> "in_cache", cache_key |-> CacheKey(prompt_path),
                                                content |-> <<>>, result |-> NoResult]]
    /\ UNCHANGED <<cache, disk>>
    /\ SharedFrame

\* if cache_key in self._cache
TestCache ==
    /\ \E s \in Sessions :
          /\ lookups[s].at = "in_cache"
          /\ lookups' = [lookups EXCEPT ![s].at =
                            IF lookups[s].cache_key \in DOMAIN cache THEN "return_cached"
                            ELSE "exists"]
    /\ UNCHANGED <<cache, disk>>
    /\ SharedFrame

\* return self._cache[cache_key]: KeyError when the entry is no longer there
ReturnCached ==
    /\ \E s \in Sessions :
          /\ lookups[s].at = "return_cached"
          /\ lookups' = [lookups EXCEPT ![s] =
                            IF lookups[s].cache_key \in DOMAIN cache
                            THEN Idle([raised |-> FALSE,
                                       value |-> cache[lookups[s].cache_key]])
                            ELSE Idle([raised |-> TRUE, value |-> <<"KeyError">>])]
    /\ UNCHANGED <<cache, disk>>
    /\ SharedFrame

\* if not file_path.exists(): raise FileNotFoundError
TestExists ==
    /\ \E s \in Sessions :
          /\ lookups[s].at = "exists"
          /\ lookups' = [lookups EXCEPT ![s] =
                            IF disk[lookups[s].cache_key] = "missing"
                            THEN Idle([raised |-> TRUE, value |-> <<"FileNotFoundError">>])
                            ELSE [@ EXCEPT !.at = "read"]]
    /\ UNCHANGED <<cache, disk>>
    /\ SharedFrame

\* content = f.read().strip(), RuntimeError when the file cannot be read
ReadFile ==
    /\ \E s \in Sessions :
          /\ lookups[s].at = "read"
          /\ lookups' = [lookups EXCEPT ![s] =
                            IF disk[lookups[s].cache_key] \in {"missing", "unreadable"}
                            THEN Idle([raised |-> TRUE, value |-> <<"RuntimeError">>])
                            ELSE [@ EXCEPT !.at = "store",
                                           !.content = Strip(FileText(lookups[s].cache_key))]]
    /\ UNCHANGED <<cache, disk>>
    /\ SharedFrame

\* self._cache[cache_key] = content; return content
StoreAndReturn ==
    /\ \E s \in Sessions :
          /\ lookups[s].at = "store"
          /\ cache' = DictSet(cache, lookups[s].cache_key, lookups[s].content)
          /\ lookups' = [lookups EXCEPT ![s] =
                            Idle([raised |-> FALSE, value |-> lookups[s].content])]
    /\ UNCHANGED disk
    /\ SharedFrame

\* a session outside a lookup calls pm.reload_prompts()
SharedReload ==
    /\ \E s \in Sessions : lookups[s].at = "idle"
    /\ cache # <<>>
    /\ cache' = <<>>
    /\ UNCHANGED <<disk, lookups>>
    /\ SharedFrame

\* the template file is edited, or the edit is undone
EditFile ==
    /\ disk' = [k \in DOMAIN disk |-> IF disk[k] = "ok" THEN "edited" ELSE "ok"]
    /\ UNCHANGED <<cache, lookups>>
    /\ SharedFrame

NextShared ==
    \/ EnterGetItem
    \/ TestCache
    \/ ReturnCached
    \/ TestExists
    \/ ReadFile
    \/ StoreAndReturn
    \/ SharedReload
    \/ EditFile

SpecShared == InitShared /\ [][NextShared]_vars

-----------------------------------------------------------------------------
(* Follow-up actions at the end of a session (main.py and
   api/follow_up_actions.py); the e-mail templates are those of the prompts
   directory as deployed *)

K_welcome_email_subject == <<"system/welcome_email_subject">>
K_lead_notification_subject == <<"system/lead_notification_subject">>

\* str.lower() of one token
LowerToken(token) ==
    CASE token = "Pharmesol" -> "pharmesol"
      [] token = "EXIT" -> "exit"
      [] token = "Bye" -> "bye"
      [] token = "Hi, I run Metro Pharmacy" -> "hi, i run metro pharmacy"
      [] token = "User: " -> "user: "
      [] token = "Bot: " -> "bot: "
      [] OTHER -> token

\* str.lower()
Lower(s) == [i \in 1..Len(s) |-> LowerToken(s[i])]

\* send_email: the mail that goes out
send_email(kind, recipient_email, subject) ==
    [kind |-> kind, to |-> recipient_email, subject |-> subject]

\* send_pharmacy_welcome_email: nothing goes out without an address
send_pharmacy_welcome_email(pharmacy) ==
    IF ~Truthy(pharmacy.email)
    THEN <<>>
    ELSE <<send_email("welcome_email", pharmacy.email.s,
                      Format(K_welcome_email_subject, <<pharmacy.name>>))>>

\* send_lead_follow_up_email: the lead notification to the sales mailbox
send_lead_follow_up_email(lead) ==
    <<send_email("lead_email", <<"leads@">> \o Lower(COMPANY_NAME) \o <<".com">>,
                 Format(K_lead_notification_subject,
                        <<Or(lead.name, StrV(<<"Unknown Pharmacy">>)).s>>))>>

\* create_crm_entry
create_crm_entry(lead) ==
    <<[kind |-> "crm_entry", to |-> lead.phone,
       subject |-> IF is_complete(lead) THEN <<"Qualified">> ELSE <<"Needs Follow-up">>]>>

\* schedule_callback
schedule_callback(phone, notes) ==
    <<[kind |-> "callback", to |-> phone, subject |-> notes]>>

\* follow-up actions for every lead, complete or not
execute_follow_up_actions_for_any_lead(ctx) ==
    IF is_returning_customer(ctx)
    THEN (IF Truthy(ctx.pharmacy.email) THEN send_pharmacy_welcome_email(ctx.pharmacy)
          ELSE <<>>)
            \o schedule_callback(ctx.pharmacy.phone, <<"Follow-up call for ">> \o ctx.pharmacy.name)
    ELSE send_lead_follow_up_email(ctx.new_lead)
            \o create_crm_entry(ctx.new_lead)
            \o schedule_callback(ctx.new_lead.phone, <<"New lead follow-up: ">>)

\* execute_follow_up_actions: the actions carried out, in order
execute_follow_up_actions(ctx) ==
    IF is_returning_customer(ctx) /\ ctx.pharmacy # None
    THEN (IF Truthy(ctx.pharmacy.email) THEN send_pharmacy_welcome_email(ctx.pharmacy)
          ELSE <<>>)
            \o schedule_callback(ctx.pharmacy.phone,
                                 <<"Follow-up call for ">> \o ctx.pharmacy.name
                                    \o <<" - discussed support needs">>)
    ELSE IF ctx.new_lead # None /\ is_complete(ctx.new_lead)
    THEN send_lead_follow_up_email(ctx.new_lead)
            \o create_crm_entry(ctx.new_lead)
            \o schedule_callback(ctx.new_lead.phone,
                                 <<"New lead follow-up: ">>
                                    \o Or(ctx.new_lead.name, StrV(<<"Unknown pharmacy">>)).s)
    ELSE <<>>

\* the session is over: execute_follow_up_actions(context)
ExecuteFollowUpActions ==
    /\ pc = "idle"
    /\ actions' = execute_follow_up_actions(context)
    /\ pc' = "done"
    /\ UNCHANGED <<context, lookup, user_message, outcome, extraction, calls,
                   last_response, turn_log, cache, disk, prompt_manager, pharmacies,
                   answer, io, lookups>>

NextSession ==
    \/ Next
    \/ ExecuteFollowUpActions

\* a session of either kind, its turns, and the follow-up actions at its end
SpecSession == InitAny /\ [][NextSession]_vars

-----------------------------------------------------------------------------
(* Greetings (prompt_manager.py and chatbot.py) *)

K_returning_customer_greeting == <<"responses/returning_customer_greeting">>

\* the template files generate_greeting uses, by cache key
GreetingFiles ==
    {Append(K_returning_customer_greeting, TXT), Append(K_new_lead_greeting, TXT)}

Digits == <<"0", "1", "2", "3", "4", "5", "6", "7", "8", "9">>

\* str(n) of a count, as its digits
RECURSIVE Str(_)
Str(n) ==
    IF n < 10 THEN <<Digits[n + 1]>>
    ELSE Str(n \div 10) \o <<Digits[(n % 10) + 1]>>

\* the list with x put in front of the first entry whose count is not larger
\* than x's: an entry of equal count that came later ends up first
RECURSIVE InsertBeforeEqual(_, _)
InsertBeforeEqual(sorted, x) ==
    IF sorted = <<>> THEN <<x>>
    ELSE IF Head(sorted).count > x.count
    THEN <<Head(sorted)>> \o InsertBeforeEqual(Tail(sorted), x)
    ELSE <<x>> \o sorted

\* the list with x put behind every entry whose count is at least x's
RECURSIVE InsertAfterEqual(_, _)
InsertAfterEqual(sorted, x) ==
    IF sorted = <<>> THEN <<x>>
    ELSE IF Head(sorted).count >= x.count
    THEN <<Head(sorted)>> \o InsertAfterEqual(Tail(sorted), x)
    ELSE <<x>> \o sorted

\* a descending sort that reverses the order of equal counts
RECURSIVE sorted_by_count_reversing_ties(_)
sorted_by_count_reversing_ties(prescriptions) ==
    IF prescriptions = <<>> THEN <<>>
    ELSE InsertBeforeEqual(
             sorted_by_count_reversing_ties(
                 SubSeq(prescriptions, 1, Len(prescriptions) - 1)),
             prescriptions[Len(prescriptions)])

\* sorted(prescriptions, key=lambda x: x.count, reverse=True): descending and
\* stable, equal counts stay in their original order
RECURSIVE sorted_by_count(_)
sorted_by_count(prescriptions) ==
    IF prescriptions = <<>> THEN <<>>
    ELSE InsertAfterEqual(
             sorted_by_count(SubSeq(prescriptions, 1, Len(prescriptions) - 1)),
             prescriptions[Len(prescriptions)])

\* seq[:n]
Take(seq, n) == SubSeq(seq, 1, IF Len(seq) < n THEN Len(seq) ELSE n)

\* f"{drug.drug} ({drug.count})" for each drug
DrugTexts(top_drugs) ==
    [i \in 1..Len(top_drugs) |->
        <<top_drugs[i].drug, " (">> \o Str(top_drugs[i].count) \o <<")">>]

\* the top_drugs_text of get_returning_customer_greeting; the leading symbol of
\* the source's literal is written as (top)
top_drugs_text(pharmacy) ==
    IF pharmacy.prescriptions = <<>> THEN <<>>
    ELSE <<"(top) Top medications: ">>
            \o Join(<<", ">>, DrugTexts(Take(sorted_by_count(pharmacy.prescriptions), 3)))

\* the high_volume_message of get_returning_customer_greeting; the leading symbol
\* of the source's literal is written as (star)
high_volume_message(pharmacy) ==
    IF is_high_volume(pharmacy)
    THEN <<"(star) High-volume pharmacy - perfect fit for ">> \o COMPANY_NAME \o <<"!">>
    ELSE <<>>

\* PromptManager.get_returning_customer_greeting
get_returning_customer_greeting(c, pharmacy) ==
    FormatTemplate(c, K_returning_customer_greeting,
                   [pharmacy_name |-> pharmacy.name,
                    location |-> location(pharmacy),
                    total_rx_volume |-> total_rx_volume(pharmacy),
                    top_drugs_text |-> top_drugs_text(pharmacy),
                    high_volume_message |-> high_volume_message(pharmacy),
                    company_name |-> COMPANY_NAME])

\* PromptManager.get_new_lead_greeting
get_new_lead_greeting(c) ==
    FormatTemplate(c, K_new_lead_greeting, [company_name |-> COMPANY_NAME])

\* PharmacyChatbot.generate_greeting
generate_greeting(c, ctx) ==
    IF is_returning_customer(ctx) /\ ctx.pharmacy # None
    THEN get_returning_customer_greeting(c, ctx.pharmacy)
    ELSE get_new_lead_greeting(c)

\* the counts a prescription of a greeted pharmacy can have
GreetingCounts == {10, 40, 60}

MaxPrescriptions == 4

GreetingDrugs == <<"Lisinopril", "Metformin", "Atorvastatin", "Losartan", "Amlodipine">>

\* the pharmacies greeted: every list of up to MaxPrescriptions prescriptions
\* with counts of GreetingCounts, equal counts included
GreetingPharmacies ==
    {[id |-> 1, name |-> <<"HealthFirst Pharmacy">>, phone |-> <<"+1-555-123-4567">>,
      email |-> None, city |-> <<"New York">>, state |-> <<"NY">>,
      prescriptions |-> [i \in 1..n |-> Prescription(GreetingDrugs[i], counts[i])]] :
        n \in 0..MaxPrescriptions, counts \in [1..MaxPrescriptions -> GreetingCounts]}

\* a session just initialized, for a pharmacy of GreetingPharmacies or a lead
InitGreeting ==
    /\ lookup \in GreetingPharmacies \cup {None}
    /\ context = initialize_conversation(<<"+1-555-123-4567">>, lookup)
    /\ pc = "idle"
    /\ user_message = <<>>
    /\ outcome = NoOutcome
    /\ extraction = "none"
    /\ calls = <<>>
    /\ last_response = <<>>
    /\ turn_log = <<>>
    /\ cache = <<>>
    /\ disk = [k \in GreetingFiles |-> "ok"]
    /\ prompt_manager = "ready"
    /\ pharmacies = <<>>
    /\ answer = NoAnswer
    /\ io = <<>>
    /\ actions = <<>>
    /\ lookups = <<>>

\* chatbot.generate_greeting(context)
GenerateGreeting ==
    /\ pc = "idle"
    /\ answer = NoAnswer
    /\ LET r == generate_greeting(cache, context)
       IN  /\ answer' = [op |-> "generate_greeting", raised |-> r.raised,
                         value |-> r.value]
           /\ cache' = r.cache
    /\ UNCHANGED <<context, lookup, pc, user_message, outcome, extraction, calls,
                   last_response, turn_log, disk, prompt_manager, pharmacies, io,
                   actions, lookups>>

NextGreeting == GenerateGreeting

SpecGreeting == InitGreeting /\ [][NextGreeting]_vars

-----------------------------------------------------------------------------
(* The interactive chat command (main.py) and the directory fetch
   (api/pharmacy/client.py).  The chatbot is always there: initialize_chatbot
   returns None only without an API key, which env.py refuses to load without,
   or on a ChatbotError, which PharmacyChatbot() does not raise.  The prompts
   directory is as deployed. *)

EXIT_COMMANDS == {<<"quit">>, <<"exit">>, <<"bye">>, <<"goodbye">>}

\* the keys _parse_pharmacy_data reads with data[...], in the order it reads them
RequiredKeys == <<"id", "name", "phone", "city", "state">>

\* a record of the API's JSON without the keys of dropped
Raw(record, dropped) == [k \in (DOMAIN record) \ dropped |-> record[k]]

\* the JSON objects the pharmacy API answers with: complete, without the
\* optional keys, and without a required key
RawRecords ==
    {Raw(record, dropped) :
        record \in {r \in PharmacyRecords : r.id \in {1, 2}},
        dropped \in {{}, {"email", "prescriptions"}, {"state"}}}

\* what the GET can do: fail, or answer with a list of up to MaxPharmacies
\* objects
FetchOutcomes ==
    {[ok |-> FALSE, error |-> <<"Connection error.">>]}
        \cup {[ok |-> TRUE, json |-> data] :
                 data \in UNION {[1..n -> RawRecords] : n \in 0..MaxPharmacies}}

\* the first required key an object lacks, <<>> when it has them all
RECURSIVE FirstMissingKey(_, _)
FirstMissingKey(data, keys) ==
    IF keys = <<>> THEN <<>>
    ELSE IF Head(keys) \notin DOMAIN data THEN <<Head(keys)>>
    ELSE FirstMissingKey(data, Tail(keys))

\* PharmacyClient._parse_pharmacy_data on an object with its required keys
parse_pharmacy_data(data) ==
    [id |-> data["id"], name |-> data["name"], phone |-> data["phone"],
     email |-> IF "email" \in DOMAIN data THEN data["email"] ELSE None,
     city |-> data["city"], state |-> data["state"],
     prescriptions |-> IF "prescriptions" \in DOMAIN data THEN data["prescriptions"]
                       ELSE <<>>]

\* the list comprehension of fetch_all_pharmacies: the records parsed so far,
\* until an object lacks a key
RECURSIVE ParseAll(_, _)
ParseAll(pharmacy_data, parsed) ==
    IF pharmacy_data = <<>> THEN [raised |-> FALSE, value |-> parsed]
    ELSE IF FirstMissingKey(Head(pharmacy_data), RequiredKeys) # <<>>
    THEN [raised |-> TRUE,
          value |-> [exc |-> "PharmacyAPIError",
                     text |-> <<"Unexpected error fetching pharmacy data: ">>
                                 \o FirstMissingKey(Head(pharmacy_data), RequiredKeys)]]
    ELSE ParseAll(Tail(pharmacy_data),
                  Append(parsed, parse_pharmacy_data(Head(pharmacy_data))))

\* the list comprehension leaving out the objects it cannot parse
RECURSIVE ParseAllSkipping(_, _)
ParseAllSkipping(pharmacy_data, parsed) ==
    IF pharmacy_data = <<>> THEN [raised |-> FALSE, value |-> parsed]
    ELSE IF FirstMissingKey(Head(pharmacy_data), RequiredKeys) # <<>>
    THEN ParseAllSkipping(Tail(pharmacy_data), parsed)
    ELSE ParseAllSkipping(Tail(pharmacy_data),
                          Append(parsed, parse_pharmacy_data(Head(pharmacy_data))))

\* a fetch that keeps the records it could parse
fetch_all_pharmacies_keeping_parsed(api) ==
    IF ~api.ok
    THEN [raised |-> TRUE,
          value |-> [exc |-> "PharmacyAPIError",
                     text |-> <<"Failed to fetch pharmacy data: ">> \o api.error]]
    ELSE ParseAllSkipping(api.json, <<>>)

\* PharmacyClient.fetch_all_pharmacies; api is what the GET does
fetch_all_pharmacies(api) ==
    IF ~api.ok
    THEN [raised |-> TRUE,
          value |-> [exc |-> "PharmacyAPIError",
                     text |-> <<"Failed to fetch pharmacy data: ">> \o api.error]]
    ELSE ParseAll(api.json, <<>>)

\* load_pharmacy_data: the fetched list, [] when the fetch raised
load_pharmacy_data(fetched) == IF fetched.raised THEN <<>> ELSE fetched.value

\* the --phone options of the chat command
ChatPhones == {Phone_Spaced, Phone_Other}

\* what the user types at the prompt
ChatInputs == UserMessages \cup {<<"quit">>, <<"EXIT">>, <<"Bye">>, <<"goodbye">>}

\* what chat prints, one entry per console.print
Printed(ev, text) == [ev |-> ev, text |-> text]

InitChat ==
    /\ context = None
    /\ lookup = None
    /\ pc = "chat"
    /\ user_message = <<>>
    /\ outcome = NoOutcome
    /\ extraction = "none"
    /\ calls = <<>>
    /\ last_response = <<>>
    /\ turn_log = <<>>
    /\ cache = <<>>
    /\ disk = [k \in TemplateFiles \cup GreetingFiles |-> "ok"]
    /\ prompt_manager = "ready"
    /\ pharmacies = <<>>
    /\ answer = NoAnswer
    /\ io = <<>>
    /\ actions = <<>>
    /\ lookups = <<>>

\* chat once the pharmacy list is loaded: typer.Exit(1) without a list, else
\* the caller's lookup, the new context and the greeting
Greet(fetched, list, phone) ==
    IF list = <<>>
    THEN /\ pc' = "exit"
         /\ io' = io \o (IF fetched.raised
                         THEN <<Printed("ERROR_LOAD_PHARMACY_DATA", fetched.value.text)>>
                         ELSE <<>>)
                     \o <<Printed("ERROR_NO_PHARMACY_DATA", <<>>)>>
         /\ UNCHANGED <<context, lookup, cache>>
    ELSE LET pharmacy == find_pharmacy_by_phone(list, phone)
             ctx == initialize_conversation(phone, pharmacy)
             greeting == generate_greeting(cache, ctx)
         IN  /\ pc' = "idle"
             /\ lookup' = pharmacy
             /\ context' = ctx
             /\ cache' = greeting.cache
             /\ io' = Append(io, Printed("greeting", greeting.value))

\* chat from its start to its first prompt
StartChat ==
    /\ pc = "chat"
    /\ \E api \in FetchOutcomes, phone \in ChatPhones :
          LET fetched == fetch_all_pharmacies(api)
          IN  /\ answer' = [op |-> "fetch_all_pharmacies", response |-> api,
                            raised |-> fetched.raised, value |-> fetched.value]
              /\ pharmacies' = load_pharmacy_data(fetched)
              /\ Greet(fetched, load_pharmacy_data(fetched), phone)
    /\ UNCHANGED <<user_message, outcome, extraction, calls, last_response, turn_log,
                   disk, prompt_manager, actions, lookups>>

\* the user types something that is no exit command: process_user_message
ChatTurn ==
    /\ ProcessUserMessage
    /\ Lower(user_message') \notin EXIT_COMMANDS

\* the user types an exit command: the goodbye, and the loop is left
ExitCommand ==
    /\ pc = "idle"
    /\ \E user_input \in ChatInputs :
          /\ Lower(user_input) \in EXIT_COMMANDS
          /\ io' = Append(io, Printed("BOT_GOODBYE", user_input))
    /\ pc' = "follow_up"
    /\ UNCHANGED <<context, lookup, user_message, outcome, extraction, calls,
                   last_response, turn_log, cache, disk, prompt_manager, pharmacies,
                   answer, actions, lookups>>

\* Ctrl-C or end of input at the prompt: typer.prompt is click's prompt, which
\* turns both into click's Abort; the loop's except clause names
\* KeyboardInterrupt and EOFError only, so Abort leaves chat
PromptAborted ==
    /\ pc = "idle"
    /\ io' = Append(io, Printed("Aborted!", <<>>))
    /\ pc' = "aborted"
    /\ UNCHANGED <<context, lookup, user_message, outcome, extraction, calls,
                   last_response, turn_log, cache, disk, prompt_manager, pharmacies,
                   answer, actions, lookups>>

\* Ctrl-C while process_user_message runs: KeyboardInterrupt is no Exception, it
\* passes process_user_message's handler and reaches the loop's except clause
TurnInterrupted ==
    /\ pc \in {"handle", "extracted", "respond"}
    /\ io' = Append(io, Printed("WARNING_CHAT_ENDED", <<>>))
    /\ pc' = "follow_up"
    /\ UNCHANGED <<context, lookup, user_message, outcome, extraction, calls,
                   last_response, turn_log, cache, disk, prompt_manager, pharmacies,
                   answer, actions, lookups>>

\* after the loop: execute_follow_up_actions(context) and the closing panel
FollowUp ==
    /\ pc = "follow_up"
    /\ actions' = execute_follow_up_actions(context)
    /\ io' = io \o <<Printed("INFO_EXECUTING_ACTIONS", <<>>),
                     Printed("SESSION_COMPLETE", <<>>)>>
    /\ pc' = "done"
    /\ UNCHANGED <<context, lookup, user_message, outcome, extraction, calls,
                   last_response, turn_log, cache, disk, prompt_manager, pharmacies,
                   answer, lookups>>

NextChat ==
    \/ StartChat
    \/ ChatTurn
    \/ HandleReturningCustomer
    \/ ExtractLeadInfo
    \/ HandleNewLead
    \/ Respond
    \/ ExitCommand
    \/ PromptAborted
    \/ TurnInterrupted
    \/ FollowUp

SpecChat == InitChat /\ [][NextChat]_vars

-----------------------------------------------------------------------------
(* Lead turns in which the extraction model answers every request with a
   complete JSON object and the reply model fails every request *)

\* the extraction answers that carry a value for every lead field
CompleteExtractions ==
    {api \in ExtractionOutcomes :
        /\ api.ok
        /\ api.content.json = "object"
        /\ \A key \in {"pharmacy_name", "contact_person", "city", "state",
                       "estimated_rx_volume", "preferred_contact"} :
              Truthy(Get(api.content.data, key))}

\* the reply calls that end in an exception
FailingReplies == {api \in ReplyOutcomes : ~api.ok \/ api.content = None}

\* ExtractLeadInfo with the extraction model answering completely
ExtractLeadInfoAnswered ==
    /\ pc = "handle"
    /\ ~is_returning_customer(context)
    /\ LET prompt == get_missing_info_prompt_for_lead(cache, context.new_lead)
       IN  /\ Truthy(prompt.value)
           /\ cache' = prompt.cache
    /\ \E api \in CompleteExtractions :
          LET r == extract_lead_info_with_openai(context.new_lead, user_message, api)
          IN  /\ context' = [context EXCEPT !.new_lead = r.lead]
              /\ calls' = calls \o r.calls
              /\ extraction' = r.status
    /\ pc' = "extracted"
    /\ UNCHANGED <<lookup, user_message, outcome, last_response, turn_log, disk,
                   prompt_manager, pharmacies, answer, io, actions, lookups>>

\* HandleNewLead with the reply model failing
HandleNewLeadFailing ==
    /\ IF pc = "handle"
       THEN /\ ~is_returning_customer(context)
            /\ ~Truthy(get_missing_info_prompt_for_lead(cache, context.new_lead).value)
       ELSE pc = "extracted"
    /\ \E api \in FailingReplies :
          LET r == handle_new_lead_reply(cache, context.new_lead, user_message,
                                         context.messages, api)
          IN  /\ outcome' = [raised |-> r.raised, branch |-> r.branch, value |-> r.value]
              /\ calls' = calls \o r.calls
              /\ cache' = r.cache
    /\ pc' = "respond"
    /\ UNCHANGED <<context, lookup, user_message, extraction, last_response, turn_log,
                   disk, prompt_manager, pharmacies, answer, io, actions, lookups>>

NextExtracting ==
    \/ ProcessUserMessage
    \/ ExtractLeadInfoAnswered
    \/ HandleNewLeadFailing
    \/ Respond

SpecExtracting == InitLead /\ [][NextExtracting]_vars

-----------------------------------------------------------------------------
(* Properties *)

Started == pc # "start"
LeadConversation == Started /\ context.new_lead # None
TextOf(v) == IF v.t = "str" THEN v.s ELSE <<>>
ReplyCalls == CountCalls(calls, "reply")

\* a lead field that is not filled in: None, the empty string, or 0
Missing(v) == v \in {None, StrV(<<>>), IntV(0)}

\* one of the four checks (name, contact person, city and state, volume) is unmet
SomeCheckUnmet(lead) ==
    \/ Missing(lead.name)
    \/ Missing(lead.contact_person)
    \/ Missing(lead.city)
    \/ Missing(lead.state)
    \/ Missing(lead.estimated_rx_volume)

FilledFields(lead) == {f \in LeadFields : ~Missing(lead[f])}

\* the system message of the reply request of the turn being handled
SystemMessageSent == calls[Len(calls)].messages[1]

\* C1: in a lead turn, after the extraction attempt: while one of the four
\* checks is unmet the reply is "Thanks for that information! " followed by the
\* missing-info question and no reply-generation call is made; a
\* reply-generation call is made only when all four are met, and then once and
\* under the new-lead system prompt built from the lead and its assessment.
C1_CollectUntilAllChecksMet ==
    (pc = "respond" /\ LeadConversation) =>
        LET lead == context.new_lead
        IN  /\ SomeCheckUnmet(lead) =>
                  /\ ~outcome.raised
                  /\ TextOf(outcome.value) =
                         <<"Thanks for that information! ">>
                             \o TextOf(get_missing_info_prompt_for_lead(cache, lead).value)
                  /\ Len(TextOf(outcome.value)) > 1
                  /\ ReplyCalls = 0
            /\ ~SomeCheckUnmet(lead) =>
                  /\ ReplyCalls = 1
                  /\ SystemMessageSent =
                         [role |-> "system",
                          content |->
                              get_new_lead_system_prompt(
                                  cache, lead, get_lead_assessment(cache, lead).value).value]

\* C1's case: a lead turn that found a check unmet answers with the question
C1_Witness ==
    /\ pc = "respond"
    /\ LeadConversation
    /\ SomeCheckUnmet(context.new_lead)
    /\ ~Missing(context.new_lead.name)
    /\ extraction = "failed"
    /\ outcome.branch = "collect"

\* C2: once a turn of a lead conversation found nothing missing (its reply came
\* from the reply-generation branch), no later turn of the session emits a
\* collection question, and no step empties a lead field that was filled.
C2_LeadTransitionMonotonic ==
    /\ [](\A i, j \in 1..Len(turn_log) :
            (i < j /\ turn_log[i].branch = "generate") => turn_log[j].branch # "collect")
    /\ [][LeadConversation =>
            FilledFields(context.new_lead) \subseteq FilledFields(context'.new_lead)]_vars

\* C2's case: a turn after the one that left the collection phase
C2_Witness ==
    /\ LeadConversation
    /\ Len(turn_log) >= 2
    /\ turn_log[1].branch = "generate"
    /\ turn_log[2].branch = "generate"
    /\ ~turn_log[2].raised

\* C3: from initialize_conversation on, through every turn, exactly one of
\* context.pharmacy and context.new_lead is set: the pharmacy when one was
\* given, the lead otherwise; is_returning_customer holds exactly when the
\* pharmacy is set.
C3_ExactlyOneIdentity ==
    Started =>
        /\ (context.pharmacy # None) # (context.new_lead # None)
        /\ (context.pharmacy # None) <=> (lookup # None)
        /\ context.pharmacy = lookup
        /\ is_returning_customer(context) <=> (context.pharmacy # None)

\* C3's case: a recognised pharmacy's session after a turn whose model call failed
C3_Witness ==
    /\ pc = "idle"
    /\ Len(turn_log) >= 2
    /\ turn_log[1].raised
    /\ context.pharmacy # None
    /\ context.new_lead = None

Apology ==
    <<"I apologize, but I'm having trouble processing your message right now. ",
      "Please call us directly at ", "+1-555-PHARMA-1", " ", "and we'll be happy to help!">>

\* the last completed turn made its reply-generation call and the call failed
LastReplyCallFailed ==
    /\ pc = "idle"
    /\ Len(turn_log) > 0
    /\ turn_log[Len(turn_log)].raised
    /\ turn_log[Len(turn_log)].reply_calls = 1

\* C4: when the reply-generation call of a turn fails, process_user_message
\* returns the fixed apology with the company phone number and none of the
\* exception's text, the history ends with "Bot: <apology>", and the bot is
\* ready for the next message with its identity untouched.
C4_ApologyOnFailedReply ==
    LastReplyCallFailed =>
        /\ last_response = Apology
        /\ Range(COMPANY_PHONE) \subseteq Range(last_response)
        /\ Range(outcome.value.text) \cap Range(last_response) = {}
        /\ context.messages[Len(context.messages)] = <<"Bot: ">> \o Apology
        /\ context.pharmacy = lookup

\* C4's case: a failed reply-generation call, and a normal turn after it
C4_Witness ==
    /\ pc = "idle"
    /\ Len(turn_log) >= 2
    /\ turn_log[1].raised
    /\ turn_log[1].reply_calls = 1
    /\ ~turn_log[2].raised
    /\ turn_log[2].reply_calls = 1
    /\ last_response = <<"We can help with that.">>

Tagged(entry, tag) == entry # <<>> /\ Head(entry) = tag
IsPrefix(s, t) == Len(s) <= Len(t) /\ SubSeq(t, 1, Len(s)) = s

\* C7: the history is append-only and tagged: a turn appends "User: <text>" and
\* then "Bot: <reply>", entries are never changed or removed, and after n
\* completed turns there are 2n entries alternating User, Bot.
C7_HistoryAppendOnly ==
    /\ []((Started /\ pc = "idle") =>
            /\ Len(context.messages) = 2 * Len(turn_log)
            /\ \A i \in 1..Len(context.messages) :
                  Tagged(context.messages[i], IF i % 2 = 1 THEN "User: " ELSE "Bot: ")
            /\ Len(turn_log) > 0 =>
                  context.messages[Len(context.messages)] = <<"Bot: ">> \o last_response)
    /\ [][Started =>
            /\ IsPrefix(context.messages, context'.messages)
            /\ (pc = "idle" /\ pc' = "handle") =>
                  context'.messages =
                      Append(context.messages, <<"User: ">> \o user_message')]_vars

\* C7's case: three completed turns, the second of them answered by the apology
C7_Witness ==
    /\ pc = "idle"
    /\ Len(turn_log) = 3
    /\ Len(context.messages) = 6
    /\ turn_log[2].raised
    /\ ~turn_log[3].raised

\* C8 as claimed: a turn does not change the history before its reply has
\* been generated (extraction, then reply generation, then the history append).
C8_HistoryUntouchedBeforeReply ==
    (Started /\ pc \in {"handle", "extracted"}) =>
        Len(context.messages) = 2 * Len(turn_log)

\* C9 as claimed: every turn of a lead conversation issues exactly one
\* structured-extraction call.
C9_OneExtractionCallEveryLeadTurn ==
    LeadConversation =>
        \A i \in 1..Len(turn_log) : turn_log[i].extraction_calls = 1

\* the history as it was before the turn being handled began
HistoryBeforeTurn == SubSeq(context.messages, 1, 2 * Len(turn_log))

\* the roles and texts of history entries, tags stripped
RECURSIVE RolesOf(_)
RolesOf(history) ==
    IF history = <<>> THEN <<>>
    ELSE <<[role |-> IF Head(Head(history)) = "User: " THEN "user" ELSE "assistant",
            content |-> StrV(Tail(Head(history)))]>> \o RolesOf(Tail(history))

Recent(history, n) ==
    IF Len(history) <= n THEN history ELSE SubSeq(history, Len(history) - n + 1, Len(history))

\* C10 as claimed: the reply request is the system message, then at most the 6
\* most recent entries of the history that preceded the turn, then the new user
\* message, which appears once.
C10_RequestIsSystemHistoryThenMessage ==
    (pc = "respond" /\ ReplyCalls > 0) =>
        LET request == calls[Len(calls)].messages
        IN  /\ request[1].role = "system"
            /\ SubSeq(request, 2, Len(request)) =
                   RolesOf(Recent(HistoryBeforeTurn, 6))
                       \o <<[role |-> "user", content |-> StrV(user_message)]>>

\* C11: no model call is retried: a turn issues at most one extraction call and
\* at most one reply-generation call, failed or not, so at most two calls; a
\* returning-customer turn issues exactly one reply-generation call and no
\* extraction call.
C11_NoModelCallRetried ==
    /\ CountCalls(calls, "extraction") <= 1
    /\ ReplyCalls <= 1
    /\ Len(calls) <= 2
    /\ \A i \in 1..Len(turn_log) :
          /\ turn_log[i].extraction_calls <= 1
          /\ turn_log[i].reply_calls <= 1
    /\ (Started /\ pc = "respond" /\ context.pharmacy # None) =>
          /\ ReplyCalls = 1
          /\ CountCalls(calls, "extraction") = 0
    /\ (Started /\ context.pharmacy # None) =>
          \A i \in 1..Len(turn_log) :
              turn_log[i].reply_calls = 1 /\ turn_log[i].extraction_calls = 0

\* C11's case: a returning customer's turn whose reply call failed, after a
\* turn whose reply call failed too
C11_Witness ==
    /\ pc = "respond"
    /\ context.pharmacy # None
    /\ outcome.raised
    /\ ReplyCalls = 1
    /\ Len(turn_log) >= 1
    /\ turn_log[1].raised

\* a lead's turn that made its reply-generation call, which failed
C11_LeadTurnCalled ==
    /\ pc = "respond"
    /\ LeadConversation
    /\ extraction = "none"
    /\ outcome.raised
    /\ ReplyCalls = 1

\* a field holding a non-empty string
NonEmpty(v) == v.t = "str" /\ v.s # <<>>

\* a volume set to a non-negative integer
VolumeSet(v) == v.t = "int" /\ v.i >= 0

\* the lead the direct calls are made on
TheLead == context.new_lead

Asked_get_missing_info_prompt ==
    answer.op = "get_missing_info_prompt_for_lead" /\ ~answer.raised

\* C12 as claimed: get_missing_info_prompt_for_lead returns none exactly when
\* name, contact_person, city and state are non-empty and estimated_rx_volume
\* is set to any non-negative integer.
C12_PromptNoneIffAllFiveSet ==
    Asked_get_missing_info_prompt =>
        ((answer.value = None) <=>
            /\ NonEmpty(TheLead.name)
            /\ NonEmpty(TheLead.contact_person)
            /\ NonEmpty(TheLead.city)
            /\ NonEmpty(TheLead.state)
            /\ VolumeSet(TheLead.estimated_rx_volume))

\* the question of the questions file for a check
QuestionText(field) ==
    CASE field = "name" -> <<"What's the name of your pharmacy?">>
      [] field = "contact_person" -> <<"What's your name?">>
      [] field = "location" -> <<"Where is your pharmacy located?">>
      [] field = "rx_volume" -> <<"How many prescriptions do you fill per month?">>

\* the questions of the unmet checks, in the order name, contact_person,
\* location, rx_volume
QuestionsInCheckOrder(lead) ==
    (IF Truthy(lead.name) THEN <<>> ELSE <<QuestionText("name")>>)
        \o (IF Truthy(lead.contact_person) THEN <<>> ELSE <<QuestionText("contact_person")>>)
        \o (IF Truthy(lead.city) /\ Truthy(lead.state) THEN <<>>
            ELSE <<QuestionText("location")>>)
        \o (IF Truthy(lead.estimated_rx_volume) THEN <<>> ELSE <<QuestionText("rx_volume")>>)

\* C13 as claimed: every unmet check contributes its question, in check order;
\* one question is returned verbatim, several as "Also, " followed by the
\* questions joined by " And ".
C13_QuestionsJoinedInOrder ==
    Asked_get_missing_info_prompt =>
        LET questions == QuestionsInCheckOrder(TheLead)
        IN  answer.value =
                IF questions = <<>> THEN None
                ELSE IF Len(questions) = 1 THEN StrV(questions[1])
                ELSE StrV(<<"Also, ">> \o Join(<<" And ">>, questions))

\* the text of a template as the store returns it
TemplateText(key) == Strip(FileContent(Append(key, TXT)))

\* C14 as claimed: get_lead_assessment picks its template by the volume's
\* bracket: absent "unknown", v >= 100 "high_volume", 50 <= v < 100
\* "medium_volume", v < 50 (0 included) "low_volume".
C14_AssessmentByBracket ==
    (answer.op = "get_lead_assessment" /\ ~answer.raised) =>
        LET v == TheLead.estimated_rx_volume
        IN  answer.value.template =
                IF v = None THEN TemplateText(K_lead_assessment_unknown)
                ELSE IF v.i >= 100 THEN TemplateText(K_lead_assessment_high_volume)
                ELSE IF v.i >= 50 THEN TemplateText(K_lead_assessment_medium_volume)
                ELSE TemplateText(K_lead_assessment_low_volume)

\* C15: is_complete is true exactly when name, contact_person, city and state
\* are all non-empty, whatever estimated_rx_volume and preferred_contact are.
C15_CompleteIffFourFieldsNonEmpty ==
    answer.op = "is_complete" =>
        (answer.value <=>
            /\ NonEmpty(TheLead.name)
            /\ NonEmpty(TheLead.contact_person)
            /\ NonEmpty(TheLead.city)
            /\ NonEmpty(TheLead.state))

\* C15's case: a lead found complete whose volume is unset, so that
\* get_missing_info_prompt_for_lead still asks for the volume
C15_Witness ==
    /\ answer.op = "is_complete"
    /\ answer.value
    /\ TheLead.estimated_rx_volume = None
    /\ TheLead.preferred_contact = None
    /\ get_missing_info_prompt_for_lead(cache, TheLead).value =
           StrV(<<"How many prescriptions do you fill per month?">>)

\* the sum of the counts at the positions S of a prescription list, taken in
\* no particular order
RECURSIVE SumAt(_, _)
SumAt(rxs, S) ==
    IF S = {} THEN 0
    ELSE LET i == CHOOSE x \in S : TRUE
         IN  rxs[i].count + SumAt(rxs, S \ {i})

\* the rearrangements of a prescription list
Rearrangements(rxs) ==
    {[i \in 1..Len(rxs) |-> rxs[f[i]]] :
        f \in {g \in [1..Len(rxs) -> 1..Len(rxs)] :
                  \A i, j \in 1..Len(rxs) : i # j => g[i] # g[j]}}

\* C16: total_rx_volume is the sum of the prescription counts, the same for
\* every rearrangement of the prescriptions and 0 for none; is_high_volume is
\* true exactly when the total exceeds 100.
C16_VolumeAdditiveAndHighAbove100 ==
    /\ answer.op = "total_rx_volume" =>
          LET rxs == answer.arg.prescriptions
          IN  /\ answer.value = SumAt(rxs, 1..Len(rxs))
              /\ rxs = <<>> => answer.value = 0
              /\ \A perm \in Rearrangements(rxs) :
                    total_rx_volume([answer.arg EXCEPT !.prescriptions = perm])
                        = answer.value
    /\ answer.op = "is_high_volume" =>
          LET total == SumAt(answer.arg.prescriptions, 1..Len(answer.arg.prescriptions))
          IN  /\ answer.value <=> (total > 100)
              /\ total = 100 => ~answer.value
              /\ total = 101 => answer.value

\* C16's case: is_high_volume asked of a pharmacy whose two counts total 100
C16_Witness ==
    /\ answer.op = "is_high_volume"
    /\ Len(answer.arg.prescriptions) = 2
    /\ SumAt(answer.arg.prescriptions, {1, 2}) = 100
    /\ ~answer.value

\* the digits of a phone number, in order
DigitsOf(phone) == SelectSeq(phone, LAMBDA ch : ch \in DigitChars)

\* C17: find_pharmacy_by_phone returns the first record of the list whose
\* phone has the same digits as the query, and none when the list is empty or
\* no record's digits equal the query's.
C17_FirstRecordWithSameDigits ==
    answer.op = "find_pharmacy_by_phone" =>
        LET hits == {i \in 1..Len(pharmacies) :
                        DigitsOf(pharmacies[i].phone) = DigitsOf(answer.arg)}
        IN  /\ hits = {} => answer.value = None
            /\ hits # {} =>
                  \E i \in hits :
                      /\ \A j \in hits : i <= j
                      /\ answer.value = pharmacies[i]
            /\ pharmacies = <<>> => answer.value = None

\* C17's case: two records with the same digits, written differently, and a
\* query written in a third way: the first record is returned
C17_Witness ==
    /\ answer.op = "find_pharmacy_by_phone"
    /\ Len(pharmacies) = 2
    /\ pharmacies[1].id = 2
    /\ pharmacies[2].id = 1
    /\ answer.arg = Phone_Spaced
    /\ answer.value = pharmacies[1]

\* the positions of the digits of a phone number
DigitPositions(phone) == {i \in 1..Len(phone) : phone[i] \in DigitChars}

\* the punctuation and spacing of written phone numbers
FormattingChars == {"+", "-", "(", ")", ".", " "}

\* two phone numbers that differ only by punctuation or spacing
SameButFormatting(a, b) ==
    SelectSeq(a, LAMBDA ch : ch \notin FormattingChars)
        = SelectSeq(b, LAMBDA ch : ch \notin FormattingChars)

\* C18: normalize_phone_number keeps exactly the digits of its input, in their
\* order; two numbers that differ only by punctuation or spacing normalize to
\* the same string; normalizing a normalized string returns it unchanged.
C18_NormalizeKeepsDigitsInOrder ==
    answer.op = "normalize_phone_number" =>
        LET positions == DigitPositions(answer.arg)
        IN  /\ Len(answer.value) = Cardinality(positions)
            /\ \A i \in positions :
                  answer.value[Cardinality({j \in positions : j <= i})] = answer.arg[i]
            /\ \A k \in 1..Len(answer.before) :
                  /\ SameButFormatting(answer.before[k].arg, answer.arg) =>
                        answer.value = answer.before[k].value
                  /\ answer.arg = answer.before[k].value => answer.value = answer.arg

\* C18's case: the result of normalizing a punctuated number, normalized again
C18_Witness ==
    /\ answer.op = "normalize_phone_number"
    /\ Len(answer.before) = 1
    /\ answer.before[1].arg = Phone_Spaced
    /\ answer.arg = answer.before[1].value
    /\ answer.value = Phone_Digits

\* two differently written numbers normalized one after the other
C18_SameButFormattingCompared ==
    /\ answer.op = "normalize_phone_number"
    /\ Len(answer.before) = 1
    /\ answer.before[1].arg = Phone_Dashed
    /\ answer.arg = Phone_Spaced
    /\ answer.value = answer.before[1].value

\* the cache slot of a path: the path without its ".txt" suffix
Slot(path) ==
    IF path # <<>> /\ path[Len(path)] = ".txt" THEN SubSeq(path, 1, Len(path) - 1)
    ELSE path

\* the lookups of the store's log that returned a template
Returned == {i \in 1..Len(io) : io[i].ev = "lookup" /\ ~io[i].raised}

\* no reload_prompts() between the log's positions i and j
NoReloadBetween(i, j) == \A k \in i..j : io[k].ev # "reload"

\* the earlier lookups that returned the template of lookup j's slot, with no
\* reload since
EarlierSame(j) ==
    {i \in Returned : i < j /\ Slot(io[i].path) = Slot(io[j].path) /\ NoReloadBetween(i, j)}

\* C19: of the lookups of one key with no reload_prompts() between them, the
\* first reads the file once and the later ones read nothing and return the
\* same content, whether the key is written with or without ".txt"; after
\* reload_prompts() the cache is empty and the next lookup reads the file again.
C19_LookupsMemoized ==
    /\ \A j \in Returned :
          /\ EarlierSame(j) # {} =>
                /\ io[j].reads = <<>>
                /\ \A i \in EarlierSame(j) : io[i].value = io[j].value
          /\ EarlierSame(j) = {} => io[j].reads = <<Append(Slot(io[j].path), ".txt")>>
    /\ (io # <<>> /\ io[Len(io)].ev = "reload") => cache = <<>>

\* C19's case: a key looked up, its file edited, the key looked up again with
\* ".txt" added, and the store reloaded
C19_Witness ==
    /\ Len(io) = 3
    /\ io[1].ev = "lookup" /\ io[1].path = <<"responses/new_lead_greeting">>
    /\ ~io[1].raised
    /\ io[2].ev = "lookup" /\ io[2].path = <<"responses/new_lead_greeting", ".txt">>
    /\ ~io[2].raised
    /\ io[2].reads = <<>>
    /\ disk[<<"responses/new_lead_greeting", ".txt">>] = "edited"
    /\ io[3].ev = "reload"

\* a step that is one lookup of the store
LookupStep == Len(io') = Len(io) + 1 /\ io'[Len(io')].ev = "lookup"

\* the lookup a LookupStep made
TheLookup == io'[Len(io')]

\* there is no file for a path on the disk
NoFileFor(path) ==
    \/ Append(Slot(path), ".txt") \notin DOMAIN disk
    \/ disk[Append(Slot(path), ".txt")] = "missing"

NotFound(result) == result.raised /\ result.value.exc = "FileNotFoundError"

\* C20 as claimed: any lookup of a key that has no file at the time of the
\* lookup fails with the not-found error.
C20_LookupWithoutFileFails ==
    [][(LookupStep /\ NoFileFor(TheLookup.path)) => NotFound(TheLookup)]_vars

\* C20, amended: constructing the store on an absent directory fails with the
\* not-found error; a lookup of a key that is not cached and has no file at the
\* time of the lookup fails with the not-found error; a failed lookup, not
\* found or unreadable, leaves the cache as it was.
C20_UncachedLookupWithoutFileFails ==
    /\ []((answer.op = "PromptManager" /\ disk[PromptsDir] = "missing") =>
             /\ NotFound(answer)
             /\ prompt_manager = "unset")
    /\ [][LookupStep =>
             /\ (Append(Slot(TheLookup.path), ".txt") \notin DOMAIN cache
                     /\ NoFileFor(TheLookup.path)) => NotFound(TheLookup)
             /\ TheLookup.raised => cache' = cache]_vars

\* C20's case: with another template cached, a key whose file has been
\* removed is looked up and the lookup fails
C20_Witness ==
    /\ io # <<>>
    /\ io[Len(io)].ev = "lookup"
    /\ io[Len(io)].path = <<"responses/new_lead_greeting">>
    /\ NotFound(io[Len(io)])
    /\ disk[<<"responses/new_lead_greeting", ".txt">>] = "missing"
    /\ DOMAIN cache = {<<"responses/missing_info_questions", ".txt">>}

\* construction on an absent directory has failed
C20_ConstructionFailed ==
    /\ answer.op = "PromptManager"
    /\ disk[PromptsDir] = "missing"
    /\ answer.raised

\* C25: for a caller no pharmacy was found for, initialize_conversation gives
\* an empty history and a fresh lead with the caller's phone and every other
\* field unset; through every turn lead.phone and caller_phone keep that value.
C25_FreshLeadKeepsCallerPhone ==
    /\ []((pc = "idle" /\ lookup = None /\ turn_log = <<>>) =>
             /\ context.messages = <<>>
             /\ context.new_lead = [phone |-> context.caller_phone, name |-> None,
                                    contact_person |-> None, city |-> None,
                                    state |-> None, estimated_rx_volume |-> None,
                                    preferred_contact |-> None])
    /\ []((Started /\ lookup = None) => context.new_lead.phone = context.caller_phone)
    /\ [][Started => context'.caller_phone = context.caller_phone]_vars

\* C25's case: an unknown caller's session after two turns
C25_Witness ==
    /\ pc = "idle"
    /\ lookup = None
    /\ Len(turn_log) = 2
    /\ context.new_lead.phone = <<"+1-555-999-0000">>
    /\ context.caller_phone = <<"+1-555-999-0000">>

\* C27: a returning customer's turns change nothing but the history: the
\* pharmacy record stays as initialize_conversation was given it, new_lead
\* stays unset, conversation_stage stays as it was and no extraction call is
\* made.
C27_ReturningTurnChangesOnlyHistory ==
    /\ []((Started /\ context.pharmacy # None) =>
             /\ context.pharmacy = lookup
             /\ context.pharmacy \in Directory
             /\ context.new_lead = None
             /\ context.conversation_stage = "returning_customer_greeting"
             /\ \A i \in 1..Len(calls) : calls[i].kind # "extraction"
             /\ extraction = "none"
             /\ \A i \in 1..Len(turn_log) : turn_log[i].extraction = "none")
    /\ [][(Started /\ context.pharmacy # None) =>
             /\ context'.pharmacy = context.pharmacy
             /\ context'.conversation_stage = context.conversation_stage
             /\ context'.caller_phone = context.caller_phone]_vars

\* C27's case: a recognised pharmacy after three turns, one of them failed
C27_Witness ==
    /\ pc = "idle"
    /\ context.pharmacy # None
    /\ Len(turn_log) = 3
    /\ Len(context.messages) = 6
    /\ turn_log[1].raised
    /\ ~turn_log[3].raised

\* the errors of a template lookup
TemplateErrors == {"FileNotFoundError", "RuntimeError"}

\* C22 as claimed: when a template a turn needs is missing or unreadable, the
\* first operation that uses it fails with the template error, and the error
\* reaches the caller of the turn.
C22_BrokenTemplateFailsTheTurn ==
    /\ (pc = "respond" /\ LeadConversation /\ SomeCheckUnmet(context.new_lead)
            /\ disk[<<"responses/missing_info_questions", ".txt">>] # "ok") =>
          (outcome.raised /\ outcome.value.exc \in TemplateErrors)
    /\ (pc = "idle" /\ turn_log # <<>>
            /\ turn_log[Len(turn_log)].error \in TemplateErrors) =>
          last_response # Apology

\* C21 as claimed: with several sessions using one store in any interleaving of
\* its operations, an entry once cached is never altered or removed, and a
\* lookup that found its key cached returns the entry without an error.
C21_SharedCacheAppendOnly ==
    /\ [][\A k \in DOMAIN cache : k \in DOMAIN cache' /\ cache'[k] = cache[k]]_vars
    /\ [][\A s \in DOMAIN lookups :
             (lookups[s].at = "return_cached" /\ lookups'[s].at = "idle") =>
                 ~lookups'[s].result.raised]_vars

\* C21, lookups alone: a lookup that found its key cached returns without an error
C21_CachedLookupReturns ==
    [][\A s \in DOMAIN lookups :
          (lookups[s].at = "return_cached" /\ lookups'[s].at = "idle") =>
              ~lookups'[s].result.raised]_vars

\* how many of the follow-up actions carried out are of one kind
ActionCount(kind) == Cardinality({i \in 1..Len(actions) : actions[i].kind = kind})

\* the caller was recognised as a pharmacy of the directory
Recognised == context.pharmacy # None

\* the four identity fields of the lead are non-empty text
IdentityKnown(lead) ==
    \A f \in {"name", "contact_person", "city", "state"} : NonEmpty(lead[f])

HasEmailAddress(pharmacy) == pharmacy.email # None /\ pharmacy.email.s # <<>>

\* C23: once the follow-up actions have been executed, a recognised pharmacy has
\* a welcome e-mail exactly when it has an e-mail address, one callback and no
\* CRM entry; a lead whose four identity fields are set has one lead
\* notification, one CRM entry and one callback; any other lead has no action.
C23_FollowUpActionsByFinalState ==
    pc = "done" =>
        IF Recognised
        THEN /\ ActionCount("welcome_email") =
                    (IF HasEmailAddress(context.pharmacy) THEN 1 ELSE 0)
             /\ ActionCount("callback") = 1
             /\ ActionCount("crm_entry") = 0
             /\ ActionCount("lead_email") = 0
        ELSE IF IdentityKnown(context.new_lead)
        THEN /\ ActionCount("lead_email") = 1
             /\ ActionCount("crm_entry") = 1
             /\ ActionCount("callback") = 1
             /\ Len(actions) = 3
        ELSE actions = <<>>

\* a lead session with turns ended without any action
C23_Witness ==
    /\ pc = "done"
    /\ ~Recognised
    /\ ~IdentityKnown(context.new_lead)
    /\ turn_log # <<>>
    /\ actions = <<>>

\* a complete lead got its three actions
C23_CompleteLeadServed ==
    /\ pc = "done"
    /\ ~Recognised
    /\ IdentityKnown(context.new_lead)
    /\ Len(actions) = 3

\* a recognised pharmacy with an address got the e-mail and the callback
C23_PharmacyServed ==
    /\ pc = "done"
    /\ Recognised
    /\ ActionCount("welcome_email") = 1
    /\ Len(actions) = 2

\* turn i of the session returned the model's reply
ModelReplied(i) == turn_log[i].branch = "generate" /\ ~turn_log[i].raised

\* the lead's monthly volume was never given
VolumeUnset(lead) == lead.estimated_rx_volume = None

\* the three follow-up actions of a lead were carried out, once each
LeadActionsDone ==
    /\ Len(actions) = 3
    /\ ActionCount("lead_email") = 1
    /\ ActionCount("crm_entry") = 1
    /\ ActionCount("callback") = 1

\* C29: in a lead conversation a turn that returned a model-generated reply
\* implies the lead's four identity fields are set, so the lead receives the
\* three follow-up actions at the end of the session; and a lead with the four
\* identity fields set whose volume is unset is asked the volume question in
\* every turn and still receives the three actions.
C29_ModelReplyImpliesComplete ==
    LeadConversation =>
        /\ (\E i \in 1..Len(turn_log) : ModelReplied(i)) =>
              /\ IdentityKnown(TheLead)
              /\ pc = "done" => LeadActionsDone
        /\ (pc = "respond" /\ outcome.branch = "generate" /\ ~outcome.raised) =>
              IdentityKnown(TheLead)
        /\ (IdentityKnown(TheLead) /\ VolumeUnset(TheLead)) =>
              /\ \A i \in 1..Len(turn_log) : turn_log[i].branch = "collect"
              /\ (pc \in {"idle", "done"} /\ turn_log # <<>>) =>
                    last_response = <<"Thanks for that information! ">>
                                        \o QuestionText("rx_volume")
              /\ pc = "done" => LeadActionsDone

\* C29's converse case: a lead with the identity fields set and no volume was
\* asked for the volume in two turns and then received the three actions
C29_Witness ==
    /\ pc = "done"
    /\ LeadConversation
    /\ IdentityKnown(TheLead)
    /\ VolumeUnset(TheLead)
    /\ Len(turn_log) >= 2
    /\ LeadActionsDone

\* a lead whose turn returned a model reply received the three actions
C29_RepliedLeadServed ==
    /\ pc = "done"
    /\ LeadConversation
    /\ \E i \in 1..Len(turn_log) : ModelReplied(i)
    /\ LeadActionsDone

\* a greeting has been generated
Greeted == answer.op = "generate_greeting" /\ ~answer.raised

\* prescription i is listed before prescription j: by larger count, and by
\* original position among equal counts
ListedBefore(rxs, i, j) ==
    \/ rxs[i].count > rxs[j].count
    \/ rxs[i].count = rxs[j].count /\ i < j

\* the positions of the min(3, n) prescriptions to list, in listing order
TopPositions(rxs) ==
    LET n == Len(rxs)
        m == IF n < 3 THEN n ELSE 3
    IN  CHOOSE sel \in [1..m -> 1..n] :
            /\ \A a, b \in 1..m : a < b => ListedBefore(rxs, sel[a], sel[b])
            /\ \A j \in (1..n) \ Range(sel) : \A a \in 1..m : ListedBefore(rxs, sel[a], j)

CountText(count) ==
    CASE count = 10 -> <<"1", "0">>
      [] count = 40 -> <<"4", "0">>
      [] count = 60 -> <<"6", "0">>

\* "drug (count)" for the prescriptions at positions sel, separated by ", "
RECURSIVE Listing(_, _)
Listing(rxs, sel) ==
    IF sel = <<>> THEN <<>>
    ELSE <<rxs[Head(sel)].drug, " (">> \o CountText(rxs[Head(sel)].count) \o <<")">>
            \o (IF Len(sel) = 1 THEN <<>> ELSE <<", ">>)
            \o Listing(rxs, Tail(sel))

\* C26: the greeting of a recognised pharmacy lists the min(3, n) prescriptions
\* with the largest counts, in descending order with equal counts in their
\* original order, and nothing when there is no prescription; its high-volume
\* fragment is present exactly when the counts sum to more than 100; a lead is
\* greeted with the new-lead greeting.
C26_GreetingFragments ==
    Greeted =>
        IF lookup # None
        THEN LET rxs == lookup.prescriptions
                 args == answer.value.args
             IN  /\ answer.value.template = TemplateText(K_returning_customer_greeting)
                 /\ args.top_drugs_text =
                        IF rxs = <<>> THEN <<>>
                        ELSE <<"(top) Top medications: ">>
                                \o Listing(rxs, TopPositions(rxs))
                 /\ (args.high_volume_message # <<>>) <=> (SumAt(rxs, 1..Len(rxs)) > 100)
        ELSE answer.value = Format(TemplateText(K_new_lead_greeting),
                                   [company_name |-> <<"Pharmesol">>])

\* C26's case: a pharmacy greeted whose four prescriptions have three equal
\* counts, of which only the first two are listed
C26_Witness ==
    /\ Greeted
    /\ lookup # None
    /\ Len(lookup.prescriptions) = 4
    /\ lookup.prescriptions[2].count = 60
    /\ \A i \in {1, 3, 4} : lookup.prescriptions[i].count = 40
    /\ answer.value.args.top_drugs_text =
           <<"(top) Top medications: ", "Metformin", " (", "6", "0", ")", ", ",
             "Lisinopril", " (", "4", "0", ")", ", ", "Atorvastatin", " (", "4", "0", ")">>
    /\ answer.value.args.high_volume_message # <<>>

\* a lead was greeted
C26_LeadGreeted ==
    /\ Greeted
    /\ lookup = None

\* the directory has been fetched
Fetched == answer.op = "fetch_all_pharmacies"

\* the request failed, or one of the objects answered lacks a required key
FetchFails ==
    \/ ~answer.response.ok
    \/ \E i \in 1..Len(answer.response.json) :
          {"id", "name", "phone", "city", "state"} \ DOMAIN answer.response.json[i] # {}

\* what chat has printed under one heading
PrintCount(ev) == Cardinality({i \in 1..Len(io) : io[i].ev = ev})

\* C24: a directory fetch whose request fails, or in which any object lacks a
\* required key, raises one PharmacyAPIError and yields no record at all; no
\* session follows it: no context, no greeting, no turn, no follow-up action.
\* Any other fetch yields one record per object.
C24_FetchAllOrNothing ==
    Fetched =>
        IF FetchFails
        THEN /\ answer.raised
             /\ answer.value.exc = "PharmacyAPIError"
             /\ pharmacies = <<>>
             /\ pc = "exit"
             /\ context = None
             /\ PrintCount("greeting") = 0
             /\ turn_log = <<>>
             /\ PrintCount("INFO_EXECUTING_ACTIONS") = 0
             /\ actions = <<>>
        ELSE /\ ~answer.raised
             /\ Len(pharmacies) = Len(answer.response.json)

\* C24's case: the second object of the answer lacked a key the first had
C24_Witness ==
    /\ Fetched
    /\ answer.response.ok
    /\ Len(answer.response.json) = 2
    /\ "state" \in DOMAIN answer.response.json[1]
    /\ "state" \notin DOMAIN answer.response.json[2]
    /\ pc = "exit"

\* the request itself failed
C24_RequestFailed ==
    /\ Fetched
    /\ ~answer.response.ok
    /\ pc = "exit"

\* chat has returned or has been left by an exception
ChatOver == pc \in {"done", "aborted"}

\* the exit commands as users type them
TypedExitCommands == {<<"quit">>, <<"EXIT">>, <<"Bye">>, <<"goodbye">>}

\* C30 as claimed: an exit command ends the loop without becoming a turn or a
\* history entry, and every session that was started has its follow-up actions
\* executed exactly once, after its last turn, however the loop ended.
C30_FollowUpOncePerSession ==
    /\ PrintCount("INFO_EXECUTING_ACTIONS") <= 1
    /\ PrintCount("INFO_EXECUTING_ACTIONS") = 1 => pc = "done"
    /\ (ChatOver /\ context # None) => PrintCount("INFO_EXECUTING_ACTIONS") = 1
    /\ context # None =>
          \A i \in 1..Len(context.messages) :
              \A typed \in TypedExitCommands : context.messages[i] # UserEntry(typed)
    /\ PrintCount("BOT_GOODBYE") = 1 =>
          /\ pc \in {"follow_up", "done"}
          /\ Len(context.messages) = 2 * Len(turn_log)

\* C30, the part about exit commands and about when the follow-up actions run:
\* an exit command is neither a turn nor a history entry, and the follow-up
\* actions run at most once and only after the loop
C30_ExitCommandNotProcessed ==
    /\ PrintCount("INFO_EXECUTING_ACTIONS") <= 1
    /\ PrintCount("INFO_EXECUTING_ACTIONS") = 1 => pc = "done"
    /\ context # None =>
          \A i \in 1..Len(context.messages) :
              \A typed \in TypedExitCommands : context.messages[i] # UserEntry(typed)
    /\ PrintCount("BOT_GOODBYE") = 1 =>
          /\ pc \in {"follow_up", "done"}
          /\ Len(context.messages) = 2 * Len(turn_log)

\* a session left by Ctrl-C at the prompt after a turn: no follow-up action ran
C30_AbortedWithoutFollowUp ==
    /\ pc = "aborted"
    /\ turn_log # <<>>
    /\ PrintCount("INFO_EXECUTING_ACTIONS") = 0

\* a session ended by an exit command got its follow-up actions
C30_ExitedAndFollowedUp ==
    /\ pc = "done"
    /\ PrintCount("BOT_GOODBYE") = 1
    /\ turn_log # <<>>
    /\ actions # <<>>

\* the last completed turn went through the extraction
LastTurnExtracted ==
    /\ pc = "idle"
    /\ turn_log # <<>>
    /\ turn_log[Len(turn_log)].extraction # "none"

\* C28 as claimed, in turns where the extraction model answers with a value for
\* every field and the reply model fails: after the turn the fields the
\* extraction filled are set, the reply is the apology, and the history ends
\* with the user message and the apology.
C28_ExtractedFieldsSurviveFailedReply ==
    (LeadConversation /\ LastTurnExtracted) =>
        /\ turn_log[Len(turn_log)].extraction = "applied"
        /\ \A f \in LeadFields : ~Missing(TheLead[f])
        /\ last_response = Apology
        /\ context.messages[Len(context.messages) - 1] = UserEntry(user_message)
        /\ context.messages[Len(context.messages)] = BotEntry(Apology)

\* a turn went through the extraction and was answered with a question
C28_ExtractionTurnCollected ==
    /\ LeadConversation
    /\ LastTurnExtracted
    /\ turn_log[Len(turn_log)].branch = "collect"


====
